---- MODULE Spec2Model ----
(***************************************************************************)
(* The container engine of Novel-Reader: the EPUB writer (generateEpub,    *)
(* with its markdown fragment renderer) and the EPUB reader                *)
(* (parseEpubFile).                                                        *)
(*                                                                         *)
(* Representation.                                                         *)
(*   - A text is a sequence of UTF-16 code units, each written as a string *)
(*     ("a", " ", "\n"; a non-ASCII unit, and the backtick, by its code   *)
(*     point: "U7AE0", "U0060").                                           *)
(*     Texts given by the caller hold character data only (no '<', '>' or  *)
(*     '&'), so that interpolating them into markup yields one text node.  *)
(*   - A path is the sequence of its '/'-separated segments.               *)
(*   - A markup document is the tree its serialisation parses to: a node   *)
(*     is a record [tag, cls, text, src, kids]; a "#text" node carries its *)
(*     character data in text, an element its children in kids.  Inline    *)
(*     tags written by the markdown renderer are kept as tokens inside the *)
(*     character data ("<strong>", "</strong>", ...).                      *)
(*   - An archive is the sequence of its entries in insertion order.       *)
(***************************************************************************)
EXTENDS Integers, Sequences, FiniteSets, TLC

VARIABLES
    pc,         \* "export" | "generated" | "import" | "parsed"
    request,    \* the ChapterExportData handed to generateEpub
    package,    \* what generateEpub returned for request
    file,       \* the archive handed to parseEpubFile
    result,     \* what parseEpubFile returned for file
    app         \* the state of the application: chapters, the active
                \* chapter's data, the provider calls in flight

vars == <<pc, request, package, file, result, app>>

----------------------------------------------------------------------------
(* Strings *)

IsSpace(c) == c \in {" ", "\n", "\t", "\r"}

RECURSIVE trimStart(_)
trimStart(s) ==
    IF s = <<>> \/ ~IsSpace(Head(s)) THEN s ELSE trimStart(Tail(s))

RECURSIVE trimEnd(_)
trimEnd(s) ==
    IF s = <<>> \/ ~IsSpace(s[Len(s)]) THEN s
    ELSE trimEnd(SubSeq(s, 1, Len(s) - 1))

\* String.prototype.trim
trim(s) == trimEnd(trimStart(s))

\* String.prototype.startsWith
startsWith(s, prefix) ==
    /\ Len(s) >= Len(prefix)
    /\ SubSeq(s, 1, Len(prefix)) = prefix

\* String.prototype.slice(n): s without its first n code units
slice(s, n) == SubSeq(s, n + 1, Len(s))

\* Smallest position >= from at which pat occurs in s; 0 when there is none
RECURSIVE indexOfFrom(_, _, _)
indexOfFrom(s, pat, from) ==
    IF from + Len(pat) - 1 > Len(s) THEN 0
    ELSE IF SubSeq(s, from, from + Len(pat) - 1) = pat THEN from
    ELSE indexOfFrom(s, pat, from + 1)

\* String.prototype.split('\n')
RECURSIVE split(_)
split(text) ==
    LET i == indexOfFrom(text, <<"\n">>, 1)
    IN  IF i = 0 THEN <<text>>
        ELSE <<SubSeq(text, 1, i - 1)>> \o split(slice(text, i))

\* Array.prototype.join(sep) on an array of texts
RECURSIVE join(_, _)
join(parts, sep) ==
    IF parts = <<>> THEN <<>>
    ELSE IF Len(parts) = 1 THEN parts[1]
    ELSE parts[1] \o sep \o join(Tail(parts), sep)

\* Concatenation of a sequence of sequences
RECURSIVE Flatten(_)
Flatten(ss) == IF ss = <<>> THEN <<>> ELSE Head(ss) \o Flatten(Tail(ss))

----------------------------------------------------------------------------
(* Markup trees *)

TextNode(t) == [tag |-> "#text", cls |-> "", text |-> t, src |-> "", kids |-> <<>>]

Elem(tag, cls, kids) ==
    [tag |-> tag, cls |-> cls, text |-> <<>>, src |-> "", kids |-> kids]

\* <source src="..." type="audio/wav" />
SourceElem(src) ==
    [tag |-> "source", cls |-> "", text |-> <<>>, src |-> src, kids |-> <<>>]

\* A line break and n spaces: the white space the templates put between tags
Indent(n) == TextNode(<<"\n">> \o [i \in 1..n |-> " "])

\* The inline tags simpleMarkdownToHtml writes into a line
InlineTags ==
    {"<strong>", "</strong>", "<em>", "</em>", "<code>", "</code>"}

\* Character data of a run of markup: the inline tags are not text
RECURSIVE CharData(_)
CharData(t) ==
    IF t = <<>> THEN <<>>
    ELSE IF Head(t) \in InlineTags THEN CharData(Tail(t))
    ELSE <<Head(t)>> \o CharData(Tail(t))

\* Node.textContent
RECURSIVE textContent(_)
textContent(node) ==
    IF node.tag = "#text" THEN CharData(node.text)
    ELSE Flatten([i \in 1..Len(node.kids) |-> textContent(node.kids[i])])

\* The elements below (and including) each node of a forest, in document order
RECURSIVE Elements(_)
Elements(nodes) ==
    Flatten([i \in 1..Len(nodes) |->
        IF nodes[i].tag = "#text" THEN <<>>
        ELSE <<nodes[i]>> \o Elements(nodes[i].kids)])

\* querySelectorAll with a list of tag names
querySelectorAll(nodes, tags) ==
    SelectSeq(Elements(nodes), LAMBDA n : n.tag \in tags)

----------------------------------------------------------------------------
(* MarkdownFragmentRenderer: simpleMarkdownToHtml *)

\* text.replace(/D(.*?)D/g, 'open$1close') for a delimiter D: the leftmost
\* delimiter pairs with the nearest delimiter after it, and the scan goes
\* on behind the pair
RECURSIVE replaceSpans(_, _, _, _)
replaceSpans(s, delim, open, close) ==
    LET i == indexOfFrom(s, delim, 1)
        j == IF i = 0 THEN 0 ELSE indexOfFrom(s, delim, i + Len(delim))
    IN  IF j = 0 THEN s
        ELSE SubSeq(s, 1, i - 1) \o <<open>>
             \o SubSeq(s, i + Len(delim), j - 1) \o <<close>>
             \o replaceSpans(slice(s, j + Len(delim) - 1), delim, open, close)

\* The three chained replace calls: bold, then italic, then code
inlineFormat(content) ==
    replaceSpans(
        replaceSpans(
            replaceSpans(content, <<"*", "*">>, "<strong>", "</strong>"),
            <<"*">>, "<em>", "</em>"),
        <<"U0060">>, "<code>", "</code>")

\* /^[-*]{3,}$/
isRule(content) ==
    /\ Len(content) >= 3
    /\ \A i \in 1..Len(content) : content[i] \in {"-", "*"}

\* The fragment written for one line of the analysis text
markdownLine(line) ==
    LET content == trim(line)
    IN  IF content = <<>> THEN Elem("br", "", <<>>)
        ELSE IF startsWith(content, <<"#", "#", "#", "#", " ">>)
            THEN Elem("h4", "", <<TextNode(slice(content, 5))>>)
        ELSE IF startsWith(content, <<"#", "#", "#", " ">>)
            THEN Elem("h3", "", <<TextNode(slice(content, 4))>>)
        ELSE IF startsWith(content, <<"#", "#", " ">>)
            THEN Elem("h2", "", <<TextNode(slice(content, 3))>>)
        ELSE IF startsWith(content, <<"#", " ">>)
            THEN Elem("h1", "", <<TextNode(slice(content, 2))>>)
        ELSE IF startsWith(content, <<">", " ">>)
            THEN Elem("blockquote", "", <<TextNode(slice(content, 2))>>)
        ELSE IF isRule(content) THEN Elem("hr", "", <<>>)
        ELSE Elem("p", "", <<TextNode(inlineFormat(content))>>)

\* The fragments of the lines, a line break between two of them
RECURSIVE joinFragments(_)
joinFragments(frags) ==
    IF Len(frags) <= 1 THEN frags
    ELSE <<frags[1], TextNode(<<"\n">>)>> \o joinFragments(Tail(frags))

simpleMarkdownToHtml(text) ==
    IF text = <<>> THEN <<>>
    ELSE LET lines == split(text)
         IN  joinFragments([i \in 1..Len(lines) |-> markdownLine(lines[i])])

----------------------------------------------------------------------------
(* Values of the host language and of the archive library *)

Undefined == [kind |-> "undefined"]

\* The truth value of map[key] for a sparse map of strings: the key is there
\* and its string is not empty
TruthyText(map, key) == key \in DOMAIN map /\ map[key] # <<>>

\* The truth value of map[key] for a sparse map of Blobs: the key is there
\* (an object is true, an empty Blob too)
TruthyBlob(map, key) == key \in DOMAIN map

\* The truth value of an optional Blob
Truthy(blob) == blob # Undefined

\* Object.keys on a map with integer keys: ascending
RECURSIVE sortedKeys(_)
sortedKeys(keys) ==
    IF keys = {} THEN <<>>
    ELSE LET m == CHOOSE k \in keys : \A j \in keys : k <= j
         IN  <<m>> \o sortedKeys(keys \ {m})

ObjectKeys(map) == sortedKeys(DOMAIN map)

\* Position of the entry (name, dir) in the archive, 0 when there is none
entryIndex(zip, name, dir) ==
    IF \E i \in 1..Len(zip) : zip[i].name = name /\ zip[i].dir = dir
    THEN CHOOSE i \in 1..Len(zip) : zip[i].name = name /\ zip[i].dir = dir
    ELSE 0

parentFolder(name) == SubSeq(name, 1, Len(name) - 1)

\* JSZip folderAdd with createFolders: the missing ancestors first
RECURSIVE folderAdd(_, _)
folderAdd(zip, name) ==
    IF name = <<>> \/ entryIndex(zip, name, TRUE) # 0 THEN zip
    ELSE Append(folderAdd(zip, parentFolder(name)),
                [name |-> name, dir |-> TRUE, compression |-> "",
                 data |-> [kind |-> "dir"]])

\* zip.file(name, data, {compression}): the parent folders are created, a
\* new name is appended, an existing name keeps its place
zipFile(zip, name, data, compression) ==
    LET z == folderAdd(zip, parentFolder(name))
        e == [name |-> name, dir |-> FALSE, compression |-> compression,
              data |-> data]
        i == entryIndex(z, name, FALSE)
    IN  IF i = 0 THEN Append(z, e) ELSE [z EXCEPT ![i] = e]

\* generateAsync as it would be if the archive's compression overrode the
\* entries' own
generateAsyncOverriding(zip, mimeType, compression) ==
    [kind |-> "blob", mimeType |-> mimeType,
     entries |-> [i \in 1..Len(zip) |->
        [zip[i] EXCEPT !.compression = compression]]]

\* zip.generateAsync({type: 'blob', mimeType, compression}): an entry keeps
\* its own compression, any other gets the archive's
generateAsync(zip, mimeType, compression) ==
    [kind |-> "blob", mimeType |-> mimeType,
     entries |-> [i \in 1..Len(zip) |->
        [zip[i] EXCEPT !.compression =
            IF zip[i].compression # "" THEN zip[i].compression
            ELSE compression]]]

\* zip.file(name): the file entry of that name, or null
zipLookup(entries, name) ==
    LET i == entryIndex(entries, name, FALSE)
    IN  IF i = 0 THEN Undefined ELSE entries[i].data

----------------------------------------------------------------------------
(* EpubWriter: generateEpub *)

\* The labels of the templates, by code unit
ChapterAudioLabel ==
    <<"U7AE0", "U8282", "U6717", "U8BFB", " ", "U00B7", " ",
      "U5168", "U7AE0", "U64AD", "U653E">>

AudioFallbackText ==
    <<"U60A8", "U7684", "U9605", "U8BFB", "U5668", "U4E0D", "U652F",
      "U6301", "U97F3", "U9891", "U64AD", "U653E", "U3002">>

AnalysisHeaderLabel ==
    <<"A", "I", " ", "U8BED", "U8A00", "U6DF1", "U5EA6", "U89E3",
      "U6790", "U62A5", "U544A">>

hasChapterAudio(data) == Truthy(data.audioBlob)

\* data.paragraphAudioBlobs || {}: the property is optional
paragraphAudioMap(data) ==
    IF "paragraphAudioBlobs" \in DOMAIN data THEN data.paragraphAudioBlobs
    ELSE <<>>

audioName(idx) == "audio_p" \o ToString(idx)

\* The block appended for data.paragraphs[idx] (idx counts from 0)
paragraphBlock(data, idx) ==
    LET p == data.paragraphs[idx + 1]
        translation == TruthyText(data.translations, idx)
        analysis == TruthyText(data.analyses, idx)
        pAudio == TruthyBlob(paragraphAudioMap(data), idx)
    IN  <<Indent(4),
          Elem("div", "paragraph-wrapper",
            <<Indent(6), Elem("div", "original-text", <<TextNode(p)>>)>>
            \o (IF pAudio
                THEN <<Indent(6),
                       Elem("div", "paragraph-audio-container",
                         <<Indent(8),
                           Elem("audio", "p-audio",
                             <<Indent(10),
                               SourceElem(audioName(idx) \o ".wav"),
                               Indent(8)>>),
                           Indent(6)>>)>>
                ELSE <<>>)
            \o (IF translation
                THEN <<Elem("div", "translation-container",
                         <<TextNode(data.translations[idx])>>)>>
                ELSE <<>>)
            \o (IF analysis
                THEN <<Indent(6),
                       Elem("div", "analysis-container",
                         <<Indent(8),
                           Elem("div", "analysis-header",
                             <<TextNode(AnalysisHeaderLabel)>>),
                           Indent(8),
                           Elem("div", "analysis-content",
                             <<Indent(10)>>
                             \o simpleMarkdownToHtml(data.analyses[idx])
                             \o <<Indent(8)>>),
                           Indent(6)>>)>>
                ELSE <<>>))>>

chapterAudioBlock ==
    <<Indent(4),
      Elem("div", "chapter-audio-container",
        <<Indent(6),
          Elem("div", "audio-label", <<TextNode(ChapterAudioLabel)>>),
          Indent(6),
          Elem("audio", "",
            <<Indent(8),
              SourceElem("audio_chapter.wav"),
              TextNode(Indent(8).text \o AudioFallbackText \o Indent(6).text)>>),
          Indent(4)>>)>>

\* The content document OEBPS/chapter.xhtml
chapterHtml(data) ==
    [kind |-> "html",
     head |-> <<Elem("title", "", <<TextNode(data.title)>>),
                Elem("link", "", <<>>)>>,
     body |-> <<Indent(2),
                Elem("h1", "chapter-title", <<TextNode(data.title)>>)>>
              \o (IF hasChapterAudio(data) THEN chapterAudioBlock ELSE <<>>)
              \o Flatten([i \in 1..Len(data.paragraphs) |->
                    paragraphBlock(data, i - 1)])]

\* manifestItems as it would be if the per-paragraph items lost their index
manifestItemsUnindexed(data) ==
    LET keys == ObjectKeys(paragraphAudioMap(data))
    IN  <<[id |-> "chapter", href |-> <<"chapter.xhtml">>,
           mediaType |-> "application/xhtml+xml"],
          [id |-> "style", href |-> <<"style.css">>,
           mediaType |-> "text/css"]>>
        \o (IF hasChapterAudio(data)
            THEN <<[id |-> "audio_chapter", href |-> <<"audio_chapter.wav">>,
                    mediaType |-> "audio/wav"]>>
            ELSE <<>>)
        \o [i \in 1..Len(keys) |->
              [id |-> "audio_p",
               href |-> <<audioName(keys[i]) \o ".wav">>,
               mediaType |-> "audio/wav"]]

\* The <item> elements of the manifest
manifestItems(data) ==
    LET keys == ObjectKeys(paragraphAudioMap(data))
    IN  <<[id |-> "chapter", href |-> <<"chapter.xhtml">>,
           mediaType |-> "application/xhtml+xml"],
          [id |-> "style", href |-> <<"style.css">>,
           mediaType |-> "text/css"]>>
        \o (IF hasChapterAudio(data)
            THEN <<[id |-> "audio_chapter", href |-> <<"audio_chapter.wav">>,
                    mediaType |-> "audio/wav"]>>
            ELSE <<>>)
        \o [i \in 1..Len(keys) |->
              [id |-> audioName(keys[i]),
               href |-> <<audioName(keys[i]) \o ".wav">>,
               mediaType |-> "audio/wav"]]

\* contentOpf as it would be if the manifest ids carried the generated
\* identifier
contentOpfStamped(data, random, now) ==
    [kind |-> "package",
     identifier |-> random,
     title |-> data.title,
     language |-> "zh",
     modified |-> now,
     manifest |-> [i \in 1..Len(manifestItems(data)) |->
                    [manifestItems(data)[i] EXCEPT !.id = @ \o "_" \o random]],
     spine |-> <<[idref |-> "chapter"]>>]

\* The package descriptor OEBPS/content.opf
contentOpf(data, random, now) ==
    [kind |-> "package",
     identifier |-> random,
     title |-> data.title,
     language |-> "zh",
     modified |-> now,
     manifest |-> manifestItems(data),
     spine |-> <<[idref |-> "chapter"]>>]

containerXml ==
    [kind |-> "container",
     rootfiles |-> <<[fullPath |-> <<"OEBPS", "content.opf">>,
                      mediaType |-> "application/oebps-package+xml"]>>]

\* writeParagraphAudio as it would be if a Blob of size 0 were not written
RECURSIVE writeParagraphAudioNonEmpty(_, _, _)
writeParagraphAudioNonEmpty(zip, map, keys) ==
    IF keys = <<>> THEN zip
    ELSE writeParagraphAudioNonEmpty(
            IF map[Head(keys)].size = 0 THEN zip
            ELSE zipFile(zip, <<"OEBPS", audioName(Head(keys)) \o ".wav">>,
                         map[Head(keys)], ""),
            map, Tail(keys))

\* The per-paragraph audio entries, in the order of Object.entries
RECURSIVE writeParagraphAudio(_, _, _)
writeParagraphAudio(zip, map, keys) ==
    IF keys = <<>> THEN zip
    ELSE writeParagraphAudio(
            zipFile(zip, <<"OEBPS", audioName(Head(keys)) \o ".wav">>,
                    map[Head(keys)], ""),
            map, Tail(keys))

\* The archive after every zip.file call of generateEpub
writeEntries(data, random, now) ==
    LET z1 == zipFile(<<>>, <<"mimetype">>,
                      [kind |-> "text", str |-> "application/epub+zip"],
                      "STORE")
        z2 == zipFile(z1, <<"META-INF", "container.xml">>, containerXml, "")
        z3 == zipFile(z2, <<"OEBPS", "style.css">>, [kind |-> "css"], "")
        z4 == zipFile(z3, <<"OEBPS", "chapter.xhtml">>, chapterHtml(data), "")
        z5 == IF Truthy(data.audioBlob)
              THEN zipFile(z4, <<"OEBPS", "audio_chapter.wav">>,
                           data.audioBlob, "")
              ELSE z4
        z6 == writeParagraphAudio(z5, paragraphAudioMap(data),
                                  ObjectKeys(paragraphAudioMap(data)))
    IN  zipFile(z6, <<"OEBPS", "content.opf">>,
                contentOpf(data, random, now), "")

\* An async function's outcome: its promise fulfilled with a value, or
\* rejected with the error thrown
Fulfilled(v) == [state |-> "fulfilled", value |-> v]
Rejected(e) == [state |-> "rejected", reason |-> e]

\* generateEpub as it would be with a range check on the sparse maps
generateEpubChecked(data, random, now) ==
    IF \E k \in DOMAIN data.translations \cup DOMAIN data.analyses
                \cup DOMAIN paragraphAudioMap(data) :
            k < 0 \/ k >= Len(data.paragraphs)
    THEN Rejected("index out of range")
    ELSE Fulfilled(generateAsync(writeEntries(data, random, now),
                                 "application/epub+zip", "DEFLATE"))

generateEpub(data, random, now) ==
    Fulfilled(generateAsync(writeEntries(data, random, now),
                            "application/epub+zip", "DEFLATE"))

----------------------------------------------------------------------------
(* EpubReader: parseEpubFile *)

\* What `!s` tests on the result of zip.file(path)?.async('string'): no such
\* entry, or an entry of length 0
NoContent(data) ==
    \/ data = Undefined
    \/ data.kind = "empty"
    \/ (data.kind = "blob" /\ data.size = 0)

\* rootFilePathOf as it would be with the usual descriptor path as a default
rootFilePathOrDefault(containerData) ==
    IF /\ containerData.kind = "container"
       /\ containerData.rootfiles # <<>>
       /\ "fullPath" \in DOMAIN containerData.rootfiles[1]
    THEN containerData.rootfiles[1].fullPath
    ELSE <<"OEBPS", "content.opf">>

\* containerDoc.querySelector('rootfile')?.getAttribute('full-path'): the
\* attribute of the first rootfile element; the empty path stands for null
\* as for '', which the caller treats alike
rootFilePathOf(containerData) ==
    IF /\ containerData.kind = "container"
       /\ containerData.rootfiles # <<>>
       /\ "fullPath" \in DOMAIN containerData.rootfiles[1]
    THEN containerData.rootfiles[1].fullPath
    ELSE <<>>

\* opfDoc.querySelectorAll('manifest > item') / ('spine > itemref'): a
\* document that is no package descriptor has neither
manifestNodes(opfData) ==
    IF opfData.kind = "package" THEN opfData.manifest ELSE <<>>

spineNodes(opfData) ==
    IF opfData.kind = "package" THEN opfData.spine ELSE <<>>

\* The id -> href record built from the manifest: items without an id or an
\* href are left out, a later item of the same id wins
manifestMap(nodes) ==
    LET ok(i) == nodes[i].id # "" /\ nodes[i].href # <<>>
        ids == {nodes[i].id : i \in {j \in 1..Len(nodes) : ok(j)}}
        last(id) == CHOOSE i \in 1..Len(nodes) :
                      /\ ok(i) /\ nodes[i].id = id
                      /\ \A j \in (i + 1)..Len(nodes) :
                            ~(ok(j) /\ nodes[j].id = id)
    IN  [id \in ids |-> nodes[last(id)].href]

spineIds(opfData) ==
    [i \in 1..Len(spineNodes(opfData)) |-> spineNodes(opfData)[i].idref]

rootDir(rootFilePath) ==
    IF Len(rootFilePath) > 1 THEN parentFolder(rootFilePath) ELSE <<>>

\* Number.prototype.toString as a text
RECURSIVE digits(_)
digits(n) ==
    IF n < 10 THEN <<ToString(n)>>
    ELSE digits(n \div 10) \o <<ToString(n % 10)>>

\* The first element with one of the tags, in document order
firstText(nodes, tags) ==
    LET found == querySelectorAll(nodes, tags)
    IN  IF found = <<>> THEN <<>> ELSE textContent(found[1])

\* extractTitle as it would be if the first heading were tried before the
\* title element
extractTitleHeadingFirst(doc, i) ==
    LET all == doc.head \o doc.body
        t == firstText(all, {"title"})
        h == firstText(all, {"h1", "h2", "h3"})
    IN  IF h # <<>> THEN h
        ELSE IF t # <<>> THEN t
        ELSE <<"C", "h", "a", "p", "t", "e", "r", " ">> \o digits(i + 1)

\* title || first h1, h2, h3 || `Chapter ${i + 1}` (i counts from 0)
extractTitle(doc, i) ==
    LET all == doc.head \o doc.body
        t == firstText(all, {"title"})
        h == firstText(all, {"h1", "h2", "h3"})
    IN  IF t # <<>> THEN t
        ELSE IF h # <<>> THEN h
        ELSE <<"C", "h", "a", "p", "t", "e", "r", " ">> \o digits(i + 1)

\* The trimmed, non-empty text of every p and h1..h6 of the body (the div
\* elements are selected and passed over)
paragraphLines(doc) ==
    LET contentNodes ==
            querySelectorAll(doc.body,
                {"p", "h1", "h2", "h3", "h4", "h5", "h6", "div"})
        taken == SelectSeq(contentNodes, LAMBDA n :
                    /\ n.tag \in {"p", "h1", "h2", "h3", "h4", "h5", "h6"}
                    /\ trim(textContent(n)) # <<>>)
    IN  [k \in 1..Len(taken) |-> trim(textContent(taken[k]))]

\* Length of the white space run of s that starts at position from
RECURSIVE spaceRun(_, _)
spaceRun(s, from) ==
    IF from > Len(s) \/ ~IsSpace(s[from]) THEN 0
    ELSE 1 + spaceRun(s, from + 1)

\* s.replace(/\n\s*\n/g, '\n\n'): from a line break, the longest white space
\* run that ends in a line break becomes one blank line
RECURSIVE collapseBlankLines(_)
collapseBlankLines(s) ==
    IF s = <<>> THEN <<>>
    ELSE IF Head(s) # "\n" THEN <<Head(s)>> \o collapseBlankLines(Tail(s))
    ELSE LET run == spaceRun(s, 2)
             ends == {k \in 2..(run + 1) : s[k] = "\n"}
         IN  IF ends = {}
             THEN <<Head(s)>> \o collapseBlankLines(Tail(s))
             ELSE LET e == CHOOSE k \in ends : \A j \in ends : j <= k
                  IN  <<"\n", "\n">> \o collapseBlankLines(slice(s, e))

bodyText(doc) ==
    Flatten([k \in 1..Len(doc.body) |-> textContent(doc.body[k])])

\* finalContent of one chapter document
extractContent(doc) ==
    LET joined == join(paragraphLines(doc), <<"\n", "\n">>)
    IN  IF trim(joined) = <<>>
        THEN collapseBlankLines(trim(bodyText(doc)))
        ELSE joined

\* A chapter whose trimmed content is no longer than this is left out
ShortPageLimit == 10

\* parser.parseFromString(xhtmlContent, 'text/html') of a chapter document
parseHtml(data) == CASE data.kind = "html" -> data

\* retained as it would be with the limit itself let through
retainedFromLimit(finalContent) ==
    Len(trim(finalContent)) >= ShortPageLimit

\* finalContent.trim().length > 10
retained(finalContent) == Len(trim(finalContent)) > ShortPageLimit

\* readSpine as it would be if a reading-order entry that cannot be resolved
\* ended the loop
RECURSIVE readSpineStopping(_, _, _, _, _)
readSpineStopping(entries, items, ids, dir, i) ==
    IF i >= Len(ids) THEN <<>>
    ELSE LET id == ids[i + 1]
             rest == readSpineStopping(entries, items, ids, dir, i + 1)
         IN  IF id \notin DOMAIN items THEN <<>>
             ELSE LET xhtmlContent == zipLookup(entries, dir \o items[id])
                  IN  IF NoContent(xhtmlContent) THEN <<>>
                      ELSE LET doc == parseHtml(xhtmlContent)
                               finalContent == extractContent(doc)
                           IN  IF retained(finalContent)
                               THEN <<[id |-> ToString(i + 1),
                                       title |-> trim(extractTitle(doc, i)),
                                       content |-> finalContent]>> \o rest
                               ELSE rest

\* The loop over spineIds from position i (counting from 0) on: the chapters
\* it pushes
RECURSIVE readSpine(_, _, _, _, _)
readSpine(entries, items, ids, dir, i) ==
    IF i >= Len(ids) THEN <<>>
    ELSE LET id == ids[i + 1]
             rest == readSpine(entries, items, ids, dir, i + 1)
         IN  IF id \notin DOMAIN items THEN rest
             ELSE LET xhtmlContent == zipLookup(entries, dir \o items[id])
                  IN  IF NoContent(xhtmlContent) THEN rest
                      ELSE LET doc == parseHtml(xhtmlContent)
                               finalContent == extractContent(doc)
                           IN  IF retained(finalContent)
                               THEN <<[id |-> ToString(i + 1),
                                       title |-> trim(extractTitle(doc, i)),
                                       content |-> finalContent]>> \o rest
                               ELSE rest

\* JSZip.loadAsync(file) fails on a file that is no archive
parseEpubFile(f) ==
    IF "entries" \notin DOMAIN f THEN Rejected("loadAsync")
    ELSE LET container == zipLookup(f.entries, <<"META-INF", "container.xml">>)
         IN  IF NoContent(container) THEN Rejected("container.xml")
             ELSE LET rootFilePath == rootFilePathOf(container)
                  IN  IF rootFilePath = <<>> THEN Rejected("rootfile")
                      ELSE LET opf == zipLookup(f.entries, rootFilePath)
                           IN  IF NoContent(opf) THEN Rejected("OPF")
                               ELSE Fulfilled(
                                        readSpine(f.entries,
                                                  manifestMap(manifestNodes(opf)),
                                                  spineIds(opf),
                                                  rootDir(rootFilePath), 0))

----------------------------------------------------------------------------
(* The plain-text splitter: splitTextIntoChapters *)

\* [一二三四五六七八九十百千万0-9]
Digits == {"0", "1", "2", "3", "4", "5", "6", "7", "8", "9"}

Numerals ==
    {"U4E00", "U4E8C", "U4E09", "U56DB", "U4E94", "U516D", "U4E03", "U516B",
     "U4E5D", "U5341", "U767E", "U5343", "U4E07"} \cup Digits

\* [章节回]
Units == {"U7AE0", "U8282", "U56DE"}

\* \s
WhiteSpace == {" ", "\n", "\t", "\r"}

\* The code units '.' does not match
LineTerminators == {"\n", "\r", "U2028", "U2029"}

ChapterWord == <<"C", "h", "a", "p", "t", "e", "r">>

\* Position behind the longest run of class members that starts at from
RECURSIVE runEnd(_, _, _)
runEnd(s, from, class) ==
    IF from <= Len(s) /\ s[from] \in class THEN runEnd(s, from + 1, class)
    ELSE from

\* .*?(?=\n|$) from position from: the position behind the shortest run of
\* '.' that a line feed or the end of the text follows; 0 when there is none
RECURSIVE lineRest(_, _)
lineRest(s, from) ==
    IF from > Len(s) \/ s[from] = "\n" THEN from
    ELSE IF s[from] \in LineTerminators THEN 0
    ELSE lineRest(s, from + 1)

\* The pattern tried at position p: the position behind the match, 0 when
\* neither alternative matches there
matchAt(s, p) ==
    IF s[p] = "U7B2C"
    THEN LET n == runEnd(s, p + 1, Numerals)
         IN  IF n > p + 1 /\ n <= Len(s) /\ s[n] \in Units
             THEN lineRest(s, n + 1) ELSE 0
    ELSE IF p + 6 <= Len(s) /\ SubSeq(s, p, p + 6) = ChapterWord
    THEN LET w == runEnd(s, p + 7, WhiteSpace)
             d == runEnd(s, w, Digits)
         IN  IF w > p + 7 /\ d > w THEN lineRest(s, d) ELSE 0
    ELSE 0

\* text.matchAll(pattern): the matches from left to right, none overlapping
\* another; index is the position of the first code unit, end the position
\* behind the last
RECURSIVE matchAll(_, _)
matchAll(s, from) ==
    IF from > Len(s) THEN <<>>
    ELSE LET e == matchAt(s, from)
         IN  IF e = 0 THEN matchAll(s, from + 1)
             ELSE <<[index |-> from, end |-> e]>> \o matchAll(s, e)

FullContent ==
    <<"F", "u", "l", "l", " ", "C", "o", "n", "t", "e", "n", "t">>

\* splitTextIntoChapters as it would be if it numbered the chapters from 0
splitTextFromZero(text, defaultTitle) ==
    LET matches == matchAll(text, 1)
    IN  IF matches = <<>>
        THEN <<[id |-> "0", title |-> defaultTitle, content |-> trim(text)]>>
        ELSE [i \in 1..Len(matches) |->
                LET start == matches[i].index
                    end == IF i < Len(matches) THEN matches[i + 1].index
                           ELSE Len(text) + 1
                    rawTitle == trim(SubSeq(text, start, matches[i].end - 1))
                IN  [id |-> ToString(i - 1),
                     title |-> rawTitle,
                     content |-> trim(SubSeq(text, start + Len(rawTitle),
                                             end - 1))]]

splitTextIntoChapters(text, defaultTitle) ==
    LET matches == matchAll(text, 1)
    IN  IF matches = <<>>
        THEN <<[id |-> "1", title |-> defaultTitle, content |-> trim(text)]>>
        ELSE [i \in 1..Len(matches) |->
                LET start == matches[i].index
                    end == IF i < Len(matches) THEN matches[i + 1].index
                           ELSE Len(text) + 1
                    rawTitle == trim(SubSeq(text, start, matches[i].end - 1))
                IN  [id |-> ToString(i),
                     title |-> rawTitle,
                     content |-> trim(SubSeq(text, start + Len(rawTitle),
                                             end - 1))]]

----------------------------------------------------------------------------
(* Export requests *)

MaxParagraphs == 3

\* The keys a sparse map may hold: in range or not, as the chapter is long
Keys == {0, 1, 2}

ParagraphPool == <<<<"a">>, <<"b">>, <<"c">>, <<"d">>, <<"e">>>>

LongTitle ==
    <<"T", "h", "e", " ", "R", "i", "v", "e", "r", "b", "a", "n", "k">>

Titles == {<<"T">>, <<>>, LongTitle}

\* The value a sparse map holds at key k: the pool is walked cyclically
ValueAt(pool, k) == pool[(k % Len(pool)) + 1]

\* A translation, an empty translation, another translation
TranslationPool == <<<<"t", "0">>, <<>>, <<"t", "2">>>>

\* "# H", a blank line, "**b** *i*"; an empty analysis; a plain line
AnalysisPool ==
    <<<<"#", " ", "H", "\n", "\n", "*", "*", "b", "*", "*", " ", "*", "i", "*">>,
      <<>>,
      <<"p", "l", "a", "i", "n">>>>

\* WAV blobs; the second is an empty Blob
AudioPool ==
    <<[kind |-> "blob", size |-> 44], [kind |-> "blob", size |-> 0],
      [kind |-> "blob", size |-> 88]>>

SparseMaps(pool) == {[k \in D |-> ValueAt(pool, k)] : D \in SUBSET Keys}

Requests ==
    {[title |-> t,
      paragraphs |-> SubSeq(ParagraphPool, 1, n),
      translations |-> tr,
      analyses |-> an,
      audioBlob |-> ab,
      paragraphAudioBlobs |-> pa] :
        t \in Titles, n \in 0..MaxParagraphs,
        tr \in SparseMaps(TranslationPool), an \in SparseMaps(AnalysisPool),
        ab \in {Undefined, [kind |-> "blob", size |-> 132]},
        pa \in SparseMaps(AudioPool)}

\* Math.random() and new Date() as the package descriptor sees them
Environments ==
    {[random |-> "k3j9x0q2a", now |-> "2024-01-01T00:00:00Z"],
     [random |-> "z81mmc04p", now |-> "2024-01-01T00:00:01Z"]}

----------------------------------------------------------------------------
(* The writer: one export, and the exported file read back *)

InitWriter ==
    /\ pc = "export"
    /\ request \in Requests
    /\ package = Undefined
    /\ file = Undefined
    /\ result = Undefined
    /\ app = Undefined

\* handleExportEpub's call of generateEpub
GenerateEpub ==
    /\ pc = "export"
    /\ \E env \in Environments :
          package' = generateEpub(request, env.random, env.now)
    /\ pc' = "generated"
    /\ UNCHANGED <<request, file, result, app>>

\* handleFileChange's call of parseEpubFile on the file f
Parse(f) ==
    /\ file' = f
    /\ result' = parseEpubFile(f)
    /\ pc' = "parsed"
    /\ UNCHANGED <<request, package, app>>

\* The exported file is opened again
ParseExported ==
    /\ pc = "generated"
    /\ package.state = "fulfilled"
    /\ Parse(package.value)

NextWriter == GenerateEpub

SpecWriter == InitWriter /\ [][NextWriter]_vars

NextRoundTrip == GenerateEpub \/ ParseExported

SpecRoundTrip == InitWriter /\ [][NextRoundTrip]_vars

----------------------------------------------------------------------------
(* The reader: one file opened *)

MaxSpine == 3

Hello ==
    <<"H", "e", "l", "l", "o", " ", "w", "o", "r", "l", "d", "!">>

TenChars == <<"0", "1", "2", "3", "4", "5", "6", "7", "8", "9">>

Doc(head, body) == [kind |-> "html", head |-> head, body |-> body]

Title(t) == Elem("title", "", <<TextNode(t)>>)

\* Chapter documents: a titled heading and paragraph of 12 characters; a heading and a
\* paragraph, no title; a padded paragraph of 10 characters; a blank title
\* and a paragraph of 11 characters; text in a div only; a cover page
\* without text; a file of length 0
DocPool ==
    {Doc(<<Title(<<"O", "n", "e">>)>>,
         <<Indent(2), Elem("h1", "", <<TextNode(<<"H", "d">>)>>),
           Elem("p", "", <<TextNode(Hello)>>), Indent(0)>>),
     Doc(<<>>,
         <<Elem("h2", "", <<TextNode(<<"P", "a", "r", "t">>)>>),
           Indent(2),
           Elem("div", "", <<Elem("p", "", <<TextNode(TenChars)>>)>>)>>),
     Doc(<<Title(<<"T", "e", "n">>)>>,
         <<Elem("p", "", <<TextNode(<<" ">> \o TenChars \o <<" ", "\n">>)>>)>>),
     Doc(<<Title(<<" ", " ">>)>>,
         <<Elem("p", "", <<TextNode(TenChars \o <<"a">>)>>),
           Elem("p", "", <<TextNode(<<" ">>)>>)>>),
     Doc(<<>>,
         <<Indent(2),
           Elem("div", "",
             <<TextNode(<<"d", "i", "v", " ", "t", "e", "x", "t", "\n", " ",
                          "\n", "\n", "m", "o", "r", "e">>)>>),
           Indent(0)>>),
     Doc(<<Title(<<"C", "o", "v", "e", "r">>)>>, <<Indent(0)>>),
     [kind |-> "empty"]}

\* The manifest of the files read: c2 is listed twice, c3 names a resource
\* the archive does not hold, one item has no id and one no href
ManifestPool ==
    <<[id |-> "c2", href |-> <<"old.xhtml">>, mediaType |-> "application/xhtml+xml"],
      [id |-> "c1", href |-> <<"c1.xhtml">>, mediaType |-> "application/xhtml+xml"],
      [id |-> "c2", href |-> <<"text", "c2.xhtml">>, mediaType |-> "application/xhtml+xml"],
      [id |-> "c3", href |-> <<"gone.xhtml">>, mediaType |-> "application/xhtml+xml"],
      [id |-> "", href |-> <<"c1.xhtml">>, mediaType |-> "application/xhtml+xml"],
      [id |-> "c4", href |-> <<>>, mediaType |-> "application/xhtml+xml"]>>

\* The idrefs a reading order may name: zz is in no manifest item
SpineIdPool == {"c1", "c2", "c3", "zz"}

RECURSIVE SeqsUpTo(_, _)
SeqsUpTo(S, n) ==
    IF n = 0 THEN {<<>>}
    ELSE LET shorter == SeqsUpTo(S, n - 1)
         IN  shorter \cup {Append(q, x) : q \in shorter, x \in S}

Container(rootfiles) == [kind |-> "container", rootfiles |-> rootfiles]

Rootfile(path) ==
    [fullPath |-> path, mediaType |-> "application/oebps-package+xml"]

Package(spine) ==
    [kind |-> "package", identifier |-> "id", title |-> <<"B">>,
     language |-> "en", modified |-> "2020-01-01T00:00:00Z",
     manifest |-> ManifestPool,
     spine |-> [i \in 1..Len(spine) |-> [idref |-> spine[i]]]]

\* An archive with the given container descriptor, the given data at
\* opfPath and the two chapter documents below the directory dir
Archive(container, opfPath, opf, dir, d1, d2) ==
    LET z1 == zipFile(<<>>, <<"mimetype">>,
                      [kind |-> "text", str |-> "application/epub+zip"], "STORE")
        z2 == IF container = Undefined THEN z1
              ELSE zipFile(z1, <<"META-INF", "container.xml">>, container, "DEFLATE")
        z3 == IF opf = Undefined THEN z2
              ELSE zipFile(z2, opfPath, opf, "DEFLATE")
        z4 == zipFile(z3, dir \o <<"c1.xhtml">>, d1, "DEFLATE")
    IN  [kind |-> "blob", mimeType |-> "application/epub+zip",
         entries |-> zipFile(z4, dir \o <<"text", "c2.xhtml">>, d2, "DEFLATE")]

\* Well-formed archives: the package descriptor in OEBPS/ or at the root
GoodFiles ==
    {Archive(Container(<<Rootfile(dir \o <<"content.opf">>)>>),
             dir \o <<"content.opf">>, Package(spine), dir, d1, d2) :
        dir \in {<<"OEBPS">>, <<>>}, spine \in SeqsUpTo(SpineIdPool, MaxSpine),
        d1 \in DocPool, d2 \in DocPool}

OpfPath == <<"OEBPS", "content.opf">>

AnyDoc == CHOOSE d \in DocPool : d.kind = "html"

\* Archives whose container level is broken, around a readable chapter
BadFiles ==
    {Archive(c.container, OpfPath, c.opf, <<"OEBPS">>, AnyDoc, AnyDoc) :
        c \in {[container |-> Undefined, opf |-> Package(<<"c1">>)],
               [container |-> [kind |-> "empty"], opf |-> Package(<<"c1">>)],
               [container |-> Container(<<>>), opf |-> Package(<<"c1">>)],
               [container |-> Container(<<[mediaType |-> "text/plain"]>>),
                opf |-> Package(<<"c1">>)],
               [container |-> Container(<<[mediaType |-> "text/plain"],
                                          Rootfile(OpfPath)>>),
                opf |-> Package(<<"c1">>)],
               [container |-> Container(<<Rootfile(<<>>)>>),
                opf |-> Package(<<"c1">>)],
               [container |-> Package(<<"c1">>), opf |-> Package(<<"c1">>)],
               [container |-> Container(<<Rootfile(OpfPath)>>), opf |-> Undefined],
               [container |-> Container(<<Rootfile(OpfPath)>>),
                opf |-> [kind |-> "empty"]],
               [container |-> Container(<<Rootfile(<<"content.opf">>)>>),
                opf |-> Package(<<"c1">>)],
               [container |-> Container(<<Rootfile(OpfPath)>>),
                opf |-> Container(<<Rootfile(OpfPath)>>)]}}
    \cup {[kind |-> "blob", mimeType |-> "text/plain"]}

Files == GoodFiles \cup BadFiles

InitReader ==
    /\ pc = "import"
    /\ request = Undefined
    /\ package = Undefined
    /\ file \in Files
    /\ result = Undefined
    /\ app = Undefined

\* A file is opened
ParseFile ==
    /\ pc = "import"
    /\ Parse(file)

NextReader == ParseFile

SpecReader == InitReader /\ [][NextReader]_vars

----------------------------------------------------------------------------
(* Properties of the writer *)

\* The package generateEpub returned, and the documents in it
Entries == package.value.entries

PackageDoc == zipLookup(Entries, <<"OEBPS", "content.opf">>)

ContentDoc == zipLookup(Entries, <<"OEBPS", "chapter.xhtml">>)

\* The indices of request.paragraphs, counted from 0
InRange(k) == 0 <= k /\ k < Len(request.paragraphs)

OutOfRangeKeys(map) == {k \in DOMAIN map : ~InRange(k)}

\* C1: the first entry of every generated archive is the file 'mimetype', it
\* holds 'application/epub+zip' and is stored, while every other file of the
\* archive is deflated
C1_MimetypeFirstStored ==
    pc = "generated" =>
        /\ package.state = "fulfilled"
        /\ Len(Entries) >= 1
        /\ Entries[1].name = <<"mimetype">>
        /\ ~Entries[1].dir
        /\ Entries[1].data = [kind |-> "text", str |-> "application/epub+zip"]
        /\ Entries[1].compression = "STORE"
        /\ \A i \in 2..Len(Entries) :
              /\ Entries[i].name # <<"mimetype">>
              /\ ~Entries[i].dir => Entries[i].compression = "DEFLATE"

\* A package with a chapter audio and per-paragraph audio entries behind the
\* mimetype entry
C1_Witness ==
    /\ pc = "generated"
    /\ Len(request.paragraphs) >= 2
    /\ hasChapterAudio(request)
    /\ DOMAIN request.paragraphAudioBlobs # {}
    /\ Len(Entries) >= 9

\* The per-paragraph audio resources the manifest lists, the content
\* document refers to, and the request holds
ManifestParagraphAudio ==
    {PackageDoc.manifest[i].href[1] : i \in
        {j \in 1..Len(PackageDoc.manifest) :
            /\ PackageDoc.manifest[j].mediaType = "audio/wav"
            /\ PackageDoc.manifest[j].id # "audio_chapter"}}

ReferencedParagraphAudio ==
    LET sources == querySelectorAll(ContentDoc.body, {"source"})
    IN  {sources[i].src : i \in
            {j \in 1..Len(sources) : sources[j].src # "audio_chapter.wav"}}

RequestedParagraphAudio ==
    {audioName(k) \o ".wav" : k \in DOMAIN request.paragraphAudioBlobs}

\* C7: the per-paragraph audio entries of the manifest are those of the keys
\* of paragraphAudio, and the content document refers to exactly the same
\* resources
C7_ManifestAudioIsReferencedAudio ==
    pc = "generated" =>
        /\ ManifestParagraphAudio = RequestedParagraphAudio
        /\ ReferencedParagraphAudio = ManifestParagraphAudio

\* The request without the keys outside [0, paragraphs.length)
InRangeOnly(data) ==
    [data EXCEPT
        !.translations = [k \in {j \in DOMAIN @ : InRange(j)} |-> @[k]],
        !.analyses = [k \in {j \in DOMAIN @ : InRange(j)} |-> @[k]],
        !.paragraphAudioBlobs = [k \in {j \in DOMAIN @ : InRange(j)} |-> @[k]]]

\* C8: a key outside [0, paragraphs.length) contributes nothing: the package
\* is the one generated for the request without its out-of-range keys
C8_OutOfRangeKeysUnused ==
    pc = "generated" =>
        package = generateEpub(InRangeOnly(request),
                               PackageDoc.identifier, PackageDoc.modified)

\* C9: the reading order has one itemref, which names a manifest item; the
\* manifest ids are pairwise distinct; an item whose href is an audio
\* resource of the archive has media type audio/wav
C9_PackageDescriptorConsistent ==
    pc = "generated" =>
        LET m == PackageDoc.manifest
        IN  /\ Len(PackageDoc.spine) = 1
            /\ \E i \in 1..Len(m) :
                  /\ m[i].id = PackageDoc.spine[1].idref
                  /\ m[i].href = <<"chapter.xhtml">>
            /\ \A i, j \in 1..Len(m) : m[i].id = m[j].id => i = j
            /\ \A i \in 1..Len(m) :
                  zipLookup(Entries, <<"OEBPS">> \o m[i].href).kind = "blob"
                      => m[i].mediaType = "audio/wav"

\* A manifest with the chapter audio and two per-paragraph audio items
C9_Witness ==
    /\ pc = "generated"
    /\ Len(request.paragraphs) >= 2
    /\ hasChapterAudio(request)
    /\ Cardinality(DOMAIN request.paragraphAudioBlobs) >= 2
    /\ Len(PackageDoc.manifest) >= 5

\* C10: generateEpub rejects no request: whatever the keys and the values of
\* the sparse maps, its promise is fulfilled with an archive
C10_NoValidationFailure ==
    pc = "generated" =>
        /\ package.state = "fulfilled"
        /\ package.value.kind = "blob"
        /\ PackageDoc.kind = "package"
        /\ ContentDoc.kind = "html"

\* A package generated for a request with an out-of-range key in each sparse
\* map and an empty translation
C10_Witness ==
    /\ pc = "generated"
    /\ Len(request.paragraphs) >= 1
    /\ package.state = "fulfilled"
    /\ OutOfRangeKeys(request.translations) # {}
    /\ OutOfRangeKeys(request.analyses) # {}
    /\ OutOfRangeKeys(request.paragraphAudioBlobs) # {}
    /\ \E k \in DOMAIN request.translations : request.translations[k] = <<>>

----------------------------------------------------------------------------
(* Properties of the reader *)

ContainerPath == <<"META-INF", "container.xml">>

HasFile(f, path) ==
    \E i \in 1..Len(f.entries) :
        f.entries[i].name = path /\ ~f.entries[i].dir

\* The archive has no container descriptor
MissingContainer(f) == "entries" \in DOMAIN f /\ ~HasFile(f, ContainerPath)

\* The container descriptor has no rootfile element with a full-path
NoRootfilePointer(f) ==
    /\ "entries" \in DOMAIN f
    /\ HasFile(f, ContainerPath)
    /\ LET c == zipLookup(f.entries, ContainerPath)
       IN  /\ c.kind = "container"
           /\ \A r \in 1..Len(c.rootfiles) :
                 "fullPath" \notin DOMAIN c.rootfiles[r]

\* The rootfile pointer names a path the archive does not hold
UnreadableDescriptor(f) ==
    /\ "entries" \in DOMAIN f
    /\ HasFile(f, ContainerPath)
    /\ LET c == zipLookup(f.entries, ContainerPath)
       IN  /\ c.kind = "container"
           /\ c.rootfiles # <<>>
           /\ "fullPath" \in DOMAIN c.rootfiles[1]
           /\ c.rootfiles[1].fullPath # <<>>
           /\ ~HasFile(f, c.rootfiles[1].fullPath)

\* The container and the package descriptor can both be read
Readable(f) ==
    /\ "entries" \in DOMAIN f
    /\ ~NoContent(zipLookup(f.entries, ContainerPath))
    /\ LET c == zipLookup(f.entries, ContainerPath)
       IN  /\ c.kind = "container"
           /\ c.rootfiles # <<>>
           /\ "fullPath" \in DOMAIN c.rootfiles[1]
           /\ c.rootfiles[1].fullPath # <<>>
           /\ ~NoContent(zipLookup(f.entries, c.rootfiles[1].fullPath))

\* Of a readable archive: the descriptor path, the reading order, the
\* manifest, and the chapter document of the reading-order position i
DescriptorPath(f) == zipLookup(f.entries, ContainerPath).rootfiles[1].fullPath

SpineOf(f) == spineIds(zipLookup(f.entries, DescriptorPath(f)))

ItemsOf(f) == manifestMap(manifestNodes(zipLookup(f.entries, DescriptorPath(f))))

DocAt(f, i) ==
    zipLookup(f.entries, rootDir(DescriptorPath(f)) \o ItemsOf(f)[SpineOf(f)[i]])

\* The reading-order position i resolves to a chapter document
Resolves(f, i) ==
    /\ SpineOf(f)[i] \in DOMAIN ItemsOf(f)
    /\ ~NoContent(DocAt(f, i))

ResolvedPositions(f) ==
    sortedKeys({i \in 1..Len(SpineOf(f)) : Resolves(f, i)})

ContentAt(f, i) == extractContent(DocAt(f, i))

\* The positions whose chapter document has more than 10 characters of
\* trimmed content
LongPositions(f) ==
    SelectSeq(ResolvedPositions(f), LAMBDA i : Len(trim(ContentAt(f, i))) > 10)

\* C3: the j-th chapter returned has id j
C3_DenseIds ==
    (pc = "parsed" /\ result.state = "fulfilled") =>
        \A j \in 1..Len(result.value) : result.value[j].id = ToString(j)

\* C4: the contents returned are those of the resolved chapter documents
\* with more than 10 characters of trimmed content, in reading order
C4_RetainedIffLongerThanTen ==
    (pc = "parsed" /\ Readable(file)) =>
        /\ result.state = "fulfilled"
        /\ LET resolved == ResolvedPositions(file)
               contents == [k \in 1..Len(resolved) |-> ContentAt(file, resolved[k])]
           IN  [j \in 1..Len(result.value) |-> result.value[j].content]
                 = SelectSeq(contents, LAMBDA c : Len(trim(c)) > 10)

\* A file read with a chapter of exactly 10 characters, which is dropped,
\* and one of 11, which is kept
C4_Witness ==
    /\ pc = "parsed"
    /\ Readable(file)
    /\ \E i, j \in 1..Len(SpineOf(file)) :
          /\ Resolves(file, i) /\ Len(trim(ContentAt(file, i))) = 10
          /\ Resolves(file, j) /\ Len(trim(ContentAt(file, j))) = 11
    /\ \E j \in 1..Len(result.value) : Len(trim(result.value[j].content)) = 11
    /\ \A j \in 1..Len(result.value) : Len(trim(result.value[j].content)) # 10

\* C5: without a container descriptor, without a rootfile pointer, or
\* without the package descriptor the pointer names, parseEpubFile fails and
\* returns no chapter list
C5_ContainerLevelFailure ==
    (pc = "parsed" /\ (\/ MissingContainer(file)
                       \/ NoRootfilePointer(file)
                       \/ UnreadableDescriptor(file))) =>
        /\ result.state = "rejected"
        /\ "value" \notin DOMAIN result

\* A file whose container descriptor has no rootfile pointer, although the
\* archive holds a package descriptor and a chapter, was rejected
C5_Witness ==
    /\ pc = "parsed"
    /\ NoRootfilePointer(file)
    /\ HasFile(file, OpfPath)
    /\ result.state = "rejected"

\* C6: with a readable container and package descriptor parseEpubFile does
\* not fail; a reading-order entry that does not resolve yields nothing, and
\* the chapters returned are those of the other entries, in order, each with
\* the title of its document
C6_BrokenEntriesSkipped ==
    (pc = "parsed" /\ Readable(file)) =>
        /\ result.state = "fulfilled"
        /\ LET kept == LongPositions(file)
           IN  /\ Len(result.value) = Len(kept)
               /\ \A m \in 1..Len(kept) :
                     result.value[m].title
                        = trim(extractTitle(DocAt(file, kept[m]), kept[m] - 1))

\* A reading order of one entry without manifest item or without file,
\* followed by two chapters, which are both returned
C6_Witness ==
    /\ pc = "parsed"
    /\ Readable(file)
    /\ Len(SpineOf(file)) = 3
    /\ ~Resolves(file, 1)
    /\ LongPositions(file) = <<2, 3>>
    /\ result.state = "fulfilled"
    /\ Len(result.value) = 2

----------------------------------------------------------------------------
(* Properties of the round trip *)

\* C2: a request of two paragraphs with empty sparse maps, written and read
\* back, gives one chapter with the request's title and paragraphs
C2_RoundTrip ==
    (/\ pc = "parsed"
     /\ Len(request.paragraphs) = 2
     /\ DOMAIN request.translations = {}
     /\ DOMAIN request.analyses = {}
     /\ DOMAIN request.paragraphAudioBlobs = {}
     /\ request.audioBlob = Undefined) =>
        /\ result.state = "fulfilled"
        /\ Len(result.value) = 1
        /\ result.value[1].title = request.title
        /\ result.value[1].content
              = join(request.paragraphs, <<"\n", "\n">>)

----------------------------------------------------------------------------
(* The renderer: one analysis text rendered *)

MaxPieces == 5

\* Pieces of texts that exercise the classification of lines
LinePieces ==
    {<<"#">>, <<"#", "#">>, <<" ">>, <<">">>, <<"-">>, <<"*">>, <<"x">>,
     <<"\n">>}

\* Pieces of texts that exercise the inline formats
InlinePieces ==
    {<<"*", "*">>, <<"*">>, <<"U0060">>, <<"x">>, <<"y">>, <<"#", " ">>,
     <<">", " ">>}

\* The texts made of at most n pieces
TextsOf(pieces, n) == {Flatten(q) : q \in SeqsUpTo(pieces, n)}

InitRender ==
    /\ pc = "render"
    /\ request \in TextsOf(LinePieces, MaxPieces)
                   \cup TextsOf(InlinePieces, MaxPieces)
    /\ package = Undefined
    /\ file = Undefined
    /\ result = Undefined
    /\ app = Undefined

\* generateEpub's call of simpleMarkdownToHtml on an analysis text
Render ==
    /\ pc = "render"
    /\ result' = simpleMarkdownToHtml(request)
    /\ pc' = "rendered"
    /\ UNCHANGED <<request, package, file, app>>

NextRender == Render

SpecRender == InitRender /\ [][NextRender]_vars

----------------------------------------------------------------------------
(* Properties of the renderer *)

\* The lines of the rendered text and the fragment written for the i-th
RenderedLines == IF request = <<>> THEN <<>> ELSE split(request)

FragmentOf(i) == result[2 * i - 1]

\* Number of '#' a text starts with
RECURSIVE HashPrefix(_)
HashPrefix(c) ==
    IF c # <<>> /\ Head(c) = "#" THEN 1 + HashPrefix(Tail(c)) ELSE 0

HeadingTags == {"h1", "h2", "h3", "h4"}

\* The marker the priority list gives a line: break, rule, heading of the
\* level, blockquote, paragraph
ListedTag(line) ==
    LET c == trim(line)
        n == HashPrefix(c)
    IN  IF c = <<>> THEN "br"
        ELSE IF Len(c) >= 3 /\ \A i \in 1..Len(c) : c[i] \in {"-", "*"}
            THEN "hr"
        ELSE IF n \in 1..4 /\ Len(c) > n /\ c[n + 1] = " "
            THEN "h" \o ToString(n)
        ELSE IF Head(c) = ">" THEN "blockquote"
        ELSE "p"

\* C11: every line is rendered as the marker of the first rule it matches
\* in the order blank, rule, heading 1-4, blockquote ('>' with or without a
\* space after it), paragraph; five or more '#' give a paragraph
C11_LineClassification ==
    pc = "rendered" =>
        \A i \in 1..Len(RenderedLines) :
            FragmentOf(i).tag = ListedTag(RenderedLines[i])

\* The character data of the i-th fragment, inline tags included
FragmentText(i) == FragmentOf(i).kids[1].text

EmphasisTags == {"<strong>", "</strong>", "<em>", "</em>"}

\* Some bold or italic tag stands inside a code span of the run t
EmphasisInsideCode(t) ==
    \E i, j \in 1..Len(t) :
        /\ i < j
        /\ t[i] = "<code>"
        /\ t[j] = "</code>"
        /\ \A k \in (i + 1)..(j - 1) : t[k] # "</code>"
        /\ \E k \in (i + 1)..(j - 1) : t[k] \in EmphasisTags

\* A non-empty text without any inline marker
Plain(w) ==
    /\ w # <<>>
    /\ \A i \in 1..Len(w) : w[i] \notin {"*", "U0060"}

\* The text between a leading and a trailing delimiter
Inside(c, delim) == SubSeq(c, Len(delim) + 1, Len(c) - Len(delim))

Wrapped(c, delim) ==
    /\ Len(c) > 2 * Len(delim)
    /\ startsWith(c, delim)
    /\ SubSeq(c, Len(c) - Len(delim) + 1, Len(c)) = delim
    /\ Plain(Inside(c, delim))

\* C12: in a paragraph line the code spans are replaced first, then bold,
\* then italic, each on the literal text the pass before left: nothing
\* inside a code span becomes bold or italic, '**x**' is one bold span
\* around x and '*y*' one italic span around y
C12_InlineOrder ==
    pc = "rendered" =>
        \A i \in 1..Len(RenderedLines) :
            LET c == trim(RenderedLines[i])
            IN  FragmentOf(i).tag = "p" =>
                    /\ ~EmphasisInsideCode(FragmentText(i))
                    /\ Wrapped(c, <<"*", "*">>) =>
                          FragmentText(i)
                              = <<"<strong>">> \o Inside(c, <<"*", "*">>)
                                \o <<"</strong>">>
                    /\ Wrapped(c, <<"*">>) =>
                          FragmentText(i)
                              = <<"<em>">> \o Inside(c, <<"*">>)
                                \o <<"</em>">>

\* The remainder a heading or blockquote line carries behind its prefix
Remainder(i) ==
    LET c == trim(RenderedLines[i])
    IN  IF FragmentOf(i).tag = "blockquote" THEN slice(c, 2)
        ELSE slice(c, HashPrefix(c) + 1)

\* C18: the remainder of a heading line and of a blockquote line goes
\* through the inline replacements of a paragraph
C18_RemainderInlineProcessed ==
    pc = "rendered" =>
        \A i \in 1..Len(RenderedLines) :
            FragmentOf(i).tag \in HeadingTags \cup {"blockquote"} =>
                FragmentText(i) = inlineFormat(Remainder(i))

----------------------------------------------------------------------------
(* The splitter: one plain text opened or pasted *)

MaxTextPieces == 4

\* Pieces of plain texts: the headers '第1章' and 'Chapter 1', parts of
\* headers, other text and line ends
TextPieces ==
    {<<"U7B2C", "1", "U7AE0">>, ChapterWord \o <<" ", "1">>,
     <<"U7B2C">>, <<"U4E00">>, <<"U7AE0">>, ChapterWord, <<"1">>, <<"x">>,
     <<"\n">>, <<"\r">>}

\* What the title field of the welcome view may hold
BookTitles == {<<>>, <<"B">>}

InitSplitter ==
    /\ pc = "welcome"
    /\ request \in TextsOf(TextPieces, MaxTextPieces)
    /\ package = Undefined
    /\ file = Undefined
    /\ result = Undefined
    /\ app = Undefined

\* The button of the welcome view: the pasted text is split under the
\* book title typed above it
SplitPasted ==
    /\ pc = "welcome"
    /\ trim(request) # <<>>
    /\ \E bookTitle \in BookTitles :
          result' = splitTextIntoChapters(request, bookTitle)
    /\ pc' = "reader"
    /\ UNCHANGED <<request, package, file, app>>

\* handleFileChange on a file that is no .epub: its text is split under
\* the default title
SplitFile ==
    /\ pc = "welcome"
    /\ result' = splitTextIntoChapters(request, FullContent)
    /\ pc' = "reader"
    /\ UNCHANGED <<request, package, file, app>>

NextSplitter == SplitPasted \/ SplitFile

SpecSplitter == InitSplitter /\ [][NextSplitter]_vars

\* Either producer of chapters
InitChapters == InitReader \/ InitSplitter

NextChapters == ParseFile \/ SplitPasted \/ SplitFile

SpecChapters == InitChapters /\ [][NextChapters]_vars

----------------------------------------------------------------------------
(* Properties of the chapters produced *)

\* C13: every chapter produced by the reader or by the splitter has a
\* title that is not empty
C13_TitlesNotEmpty ==
    /\ (pc = "parsed" /\ result.state = "fulfilled") =>
          \A i \in 1..Len(result.value) : result.value[i].title # <<>>
    /\ pc = "reader" =>
          \A i \in 1..Len(result) : result[i].title # <<>>

\* The chapter headers matched in the text split
Headers == matchAll(request, 1)

\* C16: the splitter returns at least one chapter, of the shape of the
\* reader's chapters, with ids 1..n in order; one chapter per matched
\* header, titled by it; without a header, one chapter holding the whole
\* trimmed text
C16_SplitterShape ==
    pc = "reader" =>
        /\ Len(result) >= 1
        /\ \A i \in 1..Len(result) :
              /\ DOMAIN result[i] = {"id", "title", "content"}
              /\ result[i].id = ToString(i)
        /\ Headers # <<>> =>
              /\ Len(result) = Len(Headers)
              /\ \A i \in 1..Len(result) :
                    /\ result[i].title # <<>>
                    /\ startsWith(slice(request, Headers[i].index - 1),
                                  result[i].title)
        /\ Headers = <<>> =>
              /\ Len(result) = 1
              /\ result[1].content = trim(request)

C16_Witness ==
    /\ pc = "reader"
    /\ Len(result) = 2
    /\ result[1].content # <<>>
    /\ result[2].title = <<"U7B2C", "1", "U7AE0">>

----------------------------------------------------------------------------
(* The application: a book open in the reader *)

\* A book of two chapters, of two paragraphs and of one
Book ==
    <<[id |-> "1", title |-> <<"O", "n", "e">>,
       content |-> <<"a", "\n", "\n", "b">>],
      [id |-> "2", title |-> <<"T", "w", "o">>, content |-> <<"d">>]>>

\* useMemo: the paragraphs of the active chapter
paragraphsOf(a) ==
    IF a.activeChapterIndex \in 0..(Len(a.chapters) - 1)
    THEN SelectSeq(split(a.chapters[a.activeChapterIndex + 1].content),
                   LAMBDA q : trim(q) # <<>>)
    ELSE <<>>

EmptyMap == [k \in {} |-> <<>>]

\* The id of the active chapter, "" when there is none
activeChapterId(a) ==
    IF a.activeChapterIndex \in 0..(Len(a.chapters) - 1)
    THEN a.chapters[a.activeChapterIndex + 1].id
    ELSE ""

\* An async handler between two awaits: the paragraphs and the map its
\* closure holds (chapter: the chapter the paragraphs are of, n: their
\* number, seen: the keys whose value is true) and the index i of the call
\* it waits for
Idle ==
    [on |-> FALSE, kind |-> "", chapter |-> "", n |-> 0, seen |-> {}, i |-> 0]

\* The next index from i the loop does not skip; n when the loop ends
RECURSIVE nextIndex(_, _, _)
nextIndex(seen, i, n) ==
    IF i >= n \/ i \notin seen THEN i ELSE nextIndex(seen, i + 1, n)

\* The loop at index i: waiting for the call of i, or over
loopAt(kind, chapter, seen, i, n) ==
    IF nextIndex(seen, i, n) >= n THEN Idle
    ELSE [on |-> TRUE, kind |-> kind, chapter |-> chapter, n |-> n,
          seen |-> seen, i |-> nextIndex(seen, i, n)]

\* handleFullAuto between two awaits: the step it is in, the paragraphs
\* (chapter, n) and the maps of its closure (buffers: paragraphBuffers,
\* seen: the keys of paragraphAnalyses whose value is true) and the index
\* i of the call it waits for
NotRunning ==
    [on |-> FALSE, step |-> "", chapter |-> "", n |-> 0,
     buffers |-> EmptyMap, seen |-> {}, i |-> 0]

\* What a provider returns for a paragraph of the chapter it was called
\* with: an audio buffer, a text
bufferOf(chapter) == [kind |-> "buffer", of |-> chapter]

textOf(chapter, text) == [text |-> text, of |-> chapter]

\* ({...prev, [i]: v})
spread(prev, i, v) ==
    [k \in DOMAIN prev \cup {i} |-> IF k = i THEN v ELSE prev[k]]

\* null, where an index may stand
Null == -1

\* The audio element of paragraphAudioRef: paused, the paragraph its src
\* is the audio of, the paragraphs whose play() promise is pending, and
\* whether the source could not be played
NewPlayer == [paused |-> TRUE, src |-> Null, pending |-> {}, failed |-> FALSE]

\* player.pause(): a pending play() promise is rejected
paused(p) == [p EXCEPT !.paused = TRUE, !.pending = {}]

\* player.src = url; player.load(): a pending play() promise is rejected
loaded(p, index) ==
    [p EXCEPT !.paused = TRUE, !.src = index, !.pending = {},
              !.failed = FALSE]

\* clearChapterData; rejections counts the rejected play() promises whose
\* catch callback has not run yet
cleared(a) ==
    [a EXCEPT !.paragraphBuffers = EmptyMap,
              !.translatedParagraphs = EmptyMap,
              !.paragraphAnalyses = EmptyMap,
              !.mergedAudioBlob = Undefined,
              !.playingParagraphIdx = Null,
              !.rejections = @ + Cardinality(a.player.pending),
              !.player = loaded(paused(a.player), Null)]

\* The state after a book was opened
InitApp ==
    /\ pc = "reader"
    /\ request = Undefined
    /\ package = Undefined
    /\ file = Undefined
    /\ result = Undefined
    /\ app = [chapters |-> Book,
              activeChapterIndex |-> 0,
              paragraphBuffers |-> EmptyMap,
              translatedParagraphs |-> EmptyMap,
              paragraphAnalyses |-> EmptyMap,
              mergedAudioBlob |-> Undefined,
              isBatchGenerating |-> FALSE,
              isMerging |-> FALSE,
              isTranslating |-> FALSE,
              isBatchAnalyzing |-> FALSE,
              isExporting |-> FALSE,
              isFullAutoRunning |-> FALSE,
              playingParagraphIdx |-> Null,
              player |-> NewPlayer,
              rejections |-> 0,
              generating |-> Idle,
              translating |-> Idle,
              analyzing |-> Idle,
              auto |-> NotRunning]

\* Sidebar: a chapter is clicked
SelectChapter ==
    /\ pc = "reader"
    /\ \E idx \in 0..(Len(app.chapters) - 1) :
          app' = cleared([app EXCEPT !.activeChapterIndex = idx])
    /\ UNCHANGED <<pc, request, package, file, result>>

\* The PREV button of the footer, which is there with an active chapter
PreviousChapter ==
    /\ pc = "reader"
    /\ activeChapterId(app) # ""
    /\ app.activeChapterIndex # 0
    /\ app' = cleared([app EXCEPT !.activeChapterIndex = @ - 1])
    /\ UNCHANGED <<pc, request, package, file, result>>

\* The NEXT button of the footer, which is there with an active chapter
NextChapter ==
    /\ pc = "reader"
    /\ activeChapterId(app) # ""
    /\ app.activeChapterIndex # Len(app.chapters) - 1
    /\ app' = cleared([app EXCEPT !.activeChapterIndex = @ + 1])
    /\ UNCHANGED <<pc, request, package, file, result>>

\* deleteChapter, confirmed by the user
DeleteChapter ==
    /\ pc = "reader"
    /\ \E idx \in 0..(Len(app.chapters) - 1) :
          LET chapterId == app.chapters[idx + 1].id
              newChapters ==
                  SelectSeq(app.chapters, LAMBDA c : c.id # chapterId)
              last == Len(newChapters) - 1
          IN  IF newChapters = <<>>
              THEN /\ pc' = "welcome"
                   /\ app' = [app EXCEPT !.chapters = <<>>]
              ELSE /\ pc' = pc
                   /\ app' =
                        IF idx = app.activeChapterIndex
                        THEN cleared([app EXCEPT
                                !.chapters = newChapters,
                                !.activeChapterIndex =
                                    IF idx < last THEN idx ELSE last])
                        ELSE IF idx < app.activeChapterIndex
                        THEN [app EXCEPT !.chapters = newChapters,
                                         !.activeChapterIndex = @ - 1]
                        ELSE [app EXCEPT !.chapters = newChapters]
    /\ UNCHANGED <<request, package, file, result>>

\* batchGenerateParagraphs, from its control, up to its first await; with
\* nothing to generate it is over at once. One run from the control at a
\* time.
StartBatchGenerate ==
    /\ pc = "reader"
    /\ ~app.isBatchGenerating
    /\ ~app.generating.on
    /\ LET g == loopAt("batch", activeChapterId(app),
                       DOMAIN app.paragraphBuffers, 0,
                       Len(paragraphsOf(app)))
       IN  app' = [app EXCEPT !.generating = g, !.isBatchGenerating = g.on]
    /\ UNCHANGED <<pc, request, package, file, result>>

\* generateAudioData returns: the buffer is stored under the loop's index
\* and the loop goes on
GenerateResolved ==
    /\ app.generating.on
    /\ LET g == app.generating
           next == loopAt("batch", g.chapter, g.seen, g.i + 1, g.n)
       IN  app' = [app EXCEPT
                !.paragraphBuffers = spread(@, g.i, bufferOf(g.chapter)),
                !.generating = next,
                !.isBatchGenerating = IF next.on THEN @ ELSE FALSE]
    /\ UNCHANGED <<pc, request, package, file, result>>

\* generateAudioData throws
GenerateFailed ==
    /\ app.generating.on
    /\ app' = [app EXCEPT !.generating = Idle, !.isBatchGenerating = FALSE]
    /\ UNCHANGED <<pc, request, package, file, result>>

\* handleTranslateChapter, from its control, up to its await. One call
\* from the control at a time.
StartTranslate ==
    /\ pc = "reader"
    /\ ~app.isTranslating
    /\ ~app.translating.on
    /\ app' = [app EXCEPT !.isTranslating = TRUE,
                          !.translating =
                  [Idle EXCEPT !.on = TRUE, !.kind = "chapter",
                               !.chapter = activeChapterId(app),
                               !.n = Len(paragraphsOf(app))]]
    /\ UNCHANGED <<pc, request, package, file, result>>

\* translateChapter returns the array the provider sent, of any length
TranslateResolved ==
    /\ app.translating.on
    /\ \E count \in 0..(app.translating.n + 1) :
          app' = [app EXCEPT
                !.translatedParagraphs =
                    [k \in 0..(count - 1) |->
                        textOf(app.translating.chapter,
                               ValueAt(TranslationPool, k))],
                !.isTranslating = FALSE,
                !.translating = Idle]
    /\ UNCHANGED <<pc, request, package, file, result>>

\* translateChapter throws
TranslateFailed ==
    /\ app.translating.on
    /\ app' = [app EXCEPT !.translating = Idle, !.isTranslating = FALSE]
    /\ UNCHANGED <<pc, request, package, file, result>>

\* batchAnalyzeParagraphs up to its first await
StartBatchAnalyze ==
    /\ pc = "reader"
    /\ ~app.analyzing.on
    /\ LET a == loopAt("batch", activeChapterId(app),
                       {k \in DOMAIN app.paragraphAnalyses :
                            app.paragraphAnalyses[k].text # <<>>},
                       0, Len(paragraphsOf(app)))
       IN  app' = [app EXCEPT !.analyzing = a, !.isBatchAnalyzing = a.on]
    /\ UNCHANGED <<pc, request, package, file, result>>

\* handleAnalyzeParagraph(idx) up to its await
StartAnalyzeParagraph ==
    /\ pc = "reader"
    /\ ~app.analyzing.on
    /\ \E idx \in 0..(Len(paragraphsOf(app)) - 1) :
          app' = [app EXCEPT !.analyzing =
                    [Idle EXCEPT !.on = TRUE, !.kind = "single",
                                 !.chapter = activeChapterId(app),
                                 !.n = Len(paragraphsOf(app)), !.i = idx]]
    /\ UNCHANGED <<pc, request, package, file, result>>

\* analyzeParagraph returns: the analysis is stored under the index of
\* the call
AnalyzeResolved ==
    /\ app.analyzing.on
    /\ LET a == app.analyzing
           next == IF a.kind = "batch"
                   THEN loopAt("batch", a.chapter, a.seen, a.i + 1, a.n)
                   ELSE Idle
       IN  app' = [app EXCEPT
                !.paragraphAnalyses =
                    spread(@, a.i,
                           textOf(a.chapter, ValueAt(AnalysisPool, a.i))),
                !.analyzing = next,
                !.isBatchAnalyzing =
                    IF a.kind = "batch" /\ ~next.on THEN FALSE ELSE @]
    /\ UNCHANGED <<pc, request, package, file, result>>

\* analyzeParagraph throws
AnalyzeFailed ==
    /\ app.analyzing.on
    /\ app' = [app EXCEPT !.analyzing = Idle,
                          !.isBatchAnalyzing =
                              IF app.analyzing.kind = "batch" THEN FALSE
                              ELSE @]
    /\ UNCHANGED <<pc, request, package, file, result>>

\* mergeExistingParagraphs: the blob of the buffers at hand, in ascending
\* order of their indices
mergedBlob(a) ==
    IF DOMAIN a.paragraphBuffers = {} THEN a.mergedAudioBlob
    ELSE LET availableIndices == ObjectKeys(a.paragraphBuffers)
         IN  [kind |-> "blob", size |-> 132,
              parts |-> [j \in 1..Len(availableIndices) |->
                  [idx |-> availableIndices[j],
                   buffer |-> a.paragraphBuffers[availableIndices[j]]]]]

\* mergeExistingParagraphs from its control: it has no await, isMerging
\* is false again when it returns
MergeParagraphs ==
    /\ pc = "reader"
    /\ ~app.isMerging
    /\ app' = [app EXCEPT !.mergedAudioBlob = mergedBlob(app),
                          !.isMerging = FALSE]
    /\ UNCHANGED <<pc, request, package, file, result>>

\* The request handleExportEpub builds from the state at hand
exportRequest(a) ==
    [title |-> a.chapters[a.activeChapterIndex + 1].title,
     paragraphs |-> paragraphsOf(a),
     translations |->
        [k \in DOMAIN a.translatedParagraphs |-> a.translatedParagraphs[k].text],
     analyses |->
        [k \in DOMAIN a.paragraphAnalyses |-> a.paragraphAnalyses[k].text],
     audioBlob |->
        IF a.mergedAudioBlob = Undefined THEN mergedBlob(a)
        ELSE a.mergedAudioBlob,
     paragraphAudioBlobs |->
        [k \in DOMAIN a.paragraphBuffers |->
            [kind |-> "blob", size |-> 44, buffer |-> a.paragraphBuffers[k]]]]

\* handleExportEpub up to the call of generateEpub
ExportEpub ==
    /\ pc = "reader"
    /\ ~app.isExporting
    /\ app.activeChapterIndex \in 0..(Len(app.chapters) - 1)
    /\ request' = exportRequest(app)
    /\ \E env \in Environments :
          package' = generateEpub(exportRequest(app), env.random, env.now)
    /\ app' = [app EXCEPT !.mergedAudioBlob = exportRequest(app).audioBlob,
                          !.isExporting = TRUE]
    /\ pc' = "exported"
    /\ UNCHANGED <<file, result>>

NextApp ==
    \/ SelectChapter \/ PreviousChapter \/ NextChapter \/ DeleteChapter
    \/ StartBatchGenerate \/ GenerateResolved \/ GenerateFailed
    \/ StartTranslate \/ TranslateResolved \/ TranslateFailed
    \/ StartBatchAnalyze \/ StartAnalyzeParagraph
    \/ AnalyzeResolved \/ AnalyzeFailed
    \/ MergeParagraphs \/ ExportEpub

SpecApp == InitApp /\ [][NextApp]_vars

----------------------------------------------------------------------------
(* Properties of the application *)

\* C14: the request handleExportEpub hands to generateEpub has every key
\* of translations, analyses and paragraphAudioBlobs inside
\* [0, paragraphs.length) of the active chapter
C14_ExportKeysInRange ==
    pc = "exported" =>
        \A k \in DOMAIN request.translations
                 \cup DOMAIN request.analyses
                 \cup DOMAIN request.paragraphAudioBlobs :
            0 <= k /\ k < Len(request.paragraphs)

----------------------------------------------------------------------------
(* The engine called twice *)

RepeatRequests == {r \in Requests : r.title = <<"T">>}

InitRepeat ==
    /\ pc = "export"
    /\ request \in RepeatRequests
    /\ package = Undefined
    /\ file = Undefined
    /\ result = Undefined
    /\ app = Undefined

\* handleExportEpub once more on the same request: result holds the second
\* package
GenerateAgain ==
    /\ pc = "generated"
    /\ \E env \in Environments :
          result' = generateEpub(request, env.random, env.now)
    /\ pc' = "repeated"
    /\ UNCHANGED <<request, package, file, app>>

\* The same file opened once more: app holds the second list of chapters
ParseAgain ==
    /\ pc = "parsed"
    /\ app' = parseEpubFile(file)
    /\ pc' = "reparsed"
    /\ UNCHANGED <<request, package, file, result>>

NextRepeat == GenerateEpub \/ GenerateAgain \/ ParseExported \/ ParseAgain

SpecRepeat == InitRepeat /\ [][NextRepeat]_vars

\* The package descriptor of a package
DescriptorOf(pkg) == zipLookup(pkg.value.entries, <<"OEBPS", "content.opf">>)

----------------------------------------------------------------------------
(* Properties of the content document *)

\* The element children of a node list, white space between them left out
ElementsOnly(nodes) == SelectSeq(nodes, LAMBDA n : n.tag # "#text")

\* The classes of the element children, in order
ClassesOf(nodes) ==
    [i \in 1..Len(ElementsOnly(nodes)) |-> ElementsOnly(nodes)[i].cls]

BodyBlocks == ElementsOnly(ContentDoc.body)

\* The blocks a paragraph's wrapper holds when every key that exists in a
\* sparse map gives its block
BlocksListed(idx) ==
    <<"original-text">>
    \o (IF idx \in DOMAIN paragraphAudioMap(request)
        THEN <<"paragraph-audio-container">> ELSE <<>>)
    \o (IF idx \in DOMAIN request.translations
        THEN <<"translation-container">> ELSE <<>>)
    \o (IF idx \in DOMAIN request.analyses
        THEN <<"analysis-container">> ELSE <<>>)

ChapterAudioPresent == request.audioBlob # Undefined

\* C17: the content document holds the title heading, then one chapter
\* audio block iff chapterAudio is present (with its archive entry and its
\* manifest item audio_chapter), then one wrapper per paragraph in
\* ascending order: the original text, an audio block iff
\* paragraphAudio[idx] exists, a translation block iff translations[idx]
\* exists (the empty string included), an analysis block iff analyses[idx]
\* exists
C17_ContentDocumentLayout ==
    pc = "generated" =>
        LET offset == IF ChapterAudioPresent THEN 2 ELSE 1
        IN  /\ Len(BodyBlocks) = offset + Len(request.paragraphs)
            /\ BodyBlocks[1].cls = "chapter-title"
            /\ textContent(BodyBlocks[1]) = request.title
            /\ ChapterAudioPresent =>
                  /\ BodyBlocks[2].cls = "chapter-audio-container"
                  /\ entryIndex(Entries, <<"OEBPS", "audio_chapter.wav">>,
                                FALSE) # 0
                  /\ \E i \in 1..Len(PackageDoc.manifest) :
                        PackageDoc.manifest[i].id = "audio_chapter"
            /\ ~ChapterAudioPresent =>
                  \A i \in 1..Len(BodyBlocks) :
                      BodyBlocks[i].cls # "chapter-audio-container"
            /\ \A idx \in 0..(Len(request.paragraphs) - 1) :
                  LET wrapper == BodyBlocks[offset + idx + 1]
                  IN  /\ wrapper.cls = "paragraph-wrapper"
                      /\ ClassesOf(wrapper.kids) = BlocksListed(idx)
                      /\ textContent(ElementsOnly(wrapper.kids)[1])
                            = request.paragraphs[idx + 1]

----------------------------------------------------------------------------
(* Properties of the chapters the reader extracts *)

\* The text of the first element with one of the tags in the chapter
\* document at reading-order position i; empty when there is none
SourceText(i, tags) ==
    LET found == SelectSeq(Elements(DocAt(file, i).head \o DocAt(file, i).body),
                           LAMBDA n : n.tag \in tags)
    IN  IF found = <<>> THEN <<>> ELSE textContent(found[1])

\* Decimal digits of a positive number below 100
Decimal(n) ==
    IF n < 10 THEN <<ToString(n)>>
    ELSE <<ToString(n \div 10), ToString(n % 10)>>

\* The title listed for position i: the first of title text, heading text
\* and 'Chapter i' that is not empty
ListedTitle(i) ==
    IF SourceText(i, {"title"}) # <<>> THEN SourceText(i, {"title"})
    ELSE IF SourceText(i, {"h1", "h2", "h3"}) # <<>>
        THEN SourceText(i, {"h1", "h2", "h3"})
    ELSE <<"C", "h", "a", "p", "t", "e", "r", " ">> \o Decimal(i)

\* C19: a chapter's title comes from the first source that yields text:
\* the title element, then the first h1, h2 or h3 in document order, then
\* 'Chapter n' with n the 1-based position in the reading order, skipped
\* and dropped entries counted
C19_TitlePriority ==
    (pc = "parsed" /\ Readable(file)) =>
        /\ result.state = "fulfilled"
        /\ Len(result.value) = Len(LongPositions(file))
        /\ \A j \in 1..Len(result.value) :
              result.value[j].title = trim(ListedTitle(LongPositions(file)[j]))

C19_Witness ==
    /\ pc = "parsed"
    /\ Readable(file)
    /\ result.state = "fulfilled"
    /\ Len(result.value) = 2
    /\ ~Resolves(file, 1)
    /\ SourceText(2, {"h1", "h2", "h3"}) # <<>>
    /\ result.value[1].title = <<"O", "n", "e">>
    /\ result.value[2].title = <<"C", "h", "a", "p", "t", "e", "r", " ", "3">>

\* The character data of every text node of a forest, in document order
RECURSIVE TextsIn(_)
TextsIn(nodes) ==
    Flatten([i \in 1..Len(nodes) |->
        IF nodes[i].tag = "#text" THEN <<CharData(nodes[i].text)>>
        ELSE TextsIn(nodes[i].kids)])

BlockTags == {"p", "h1", "h2", "h3", "h4", "h5", "h6"}

\* The trimmed, non-empty texts of the paragraph and heading elements of
\* the chapter document at position i, in document order
BlockTexts(i) ==
    LET blocks == SelectSeq(Elements(DocAt(file, i).body),
                            LAMBDA n : n.tag \in BlockTags)
        texts == [k \in 1..Len(blocks) |-> trim(textContent(blocks[k]))]
    IN  SelectSeq(texts, LAMBDA t : t # <<>>)

\* The content listed for position i: the block texts with one blank line
\* between them; the body text with its blank-line runs collapsed when
\* there is no block text
ListedContent(i) ==
    IF BlockTexts(i) # <<>> THEN join(BlockTexts(i), <<"\n", "\n">>)
    ELSE collapseBlankLines(trim(bodyText(DocAt(file, i))))

\* Every text of the body of position i is found in the content
NothingLost(i, content) ==
    \A k \in 1..Len(TextsIn(DocAt(file, i).body)) :
        LET t == trim(TextsIn(DocAt(file, i).body)[k])
        IN  t # <<>> => indexOfFrom(content, t, 1) # 0

\* C20: a chapter's content is the trimmed, non-empty text of its
\* paragraph and heading elements in document order with one blank line
\* between them, the collapsed body text only when that is empty; when a
\* paragraph or heading has text, no text of the body outside them is lost
C20_ContentExtraction ==
    (pc = "parsed" /\ Readable(file)) =>
        /\ result.state = "fulfilled"
        /\ Len(result.value) = Len(LongPositions(file))
        /\ \A j \in 1..Len(result.value) :
              LET i == LongPositions(file)[j]
              IN  /\ result.value[j].content = ListedContent(i)
                  /\ BlockTexts(i) # <<>> =>
                        NothingLost(i, result.value[j].content)


----------------------------------------------------------------------------
(* The reader: hrefs and the directory of the package descriptor *)

\* The directories the package descriptor may be in
DescriptorDirs == {<<>>, <<"OEBPS">>, <<"a", "b">>}

\* A chapter document of the name nm: the href its manifest item carries
\* and the entry the document is stored at, seen from a descriptor in dir
Placements(dir, nm) ==
    {[href |-> <<nm>>, at |-> dir \o <<nm>>],
     [href |-> <<"text", nm>>, at |-> dir \o <<"text", nm>>],
     [href |-> <<"text", "..", nm>>, at |-> dir \o <<nm>>]}
    \cup IF dir = <<>> THEN {}
         ELSE {[href |-> <<"..", nm>>, at |-> parentFolder(dir) \o <<nm>>],
               [href |-> <<"..", "text", nm>>,
                at |-> parentFolder(dir) \o <<"text", nm>>]}

\* An archive of two chapters: the descriptor in dir, the documents d1 and
\* d2 at the places p1 and p2
PlacedArchive(dir, p1, d1, p2, d2) ==
    LET opfPath == dir \o <<"content.opf">>
        opf == [Package(<<"c1", "c2">>) EXCEPT !.manifest =
                   <<[id |-> "c1", href |-> p1.href,
                      mediaType |-> "application/xhtml+xml"],
                     [id |-> "c2", href |-> p2.href,
                      mediaType |-> "application/xhtml+xml"]>>]
        z1 == zipFile(<<>>, <<"mimetype">>,
                      [kind |-> "text", str |-> "application/epub+zip"], "STORE")
        z2 == zipFile(z1, <<"META-INF", "container.xml">>,
                      Container(<<Rootfile(opfPath)>>), "DEFLATE")
        z3 == zipFile(z2, opfPath, opf, "DEFLATE")
        z4 == zipFile(z3, p1.at, d1, "DEFLATE")
    IN  [kind |-> "blob", mimeType |-> "application/epub+zip",
         entries |-> zipFile(z4, p2.at, d2, "DEFLATE")]

\* The chapter documents that are kept when they are read
LongDocs(pool) ==
    {d \in pool : d.kind = "html" /\ retained(extractContent(d))}

PlacedFiles(dirs, pool) ==
    UNION {{PlacedArchive(dir, p1, d1, p2, d2) :
                p1 \in Placements(dir, "c1.xhtml"),
                p2 \in Placements(dir, "c2.xhtml"),
                d1 \in LongDocs(pool), d2 \in LongDocs(pool)} :
           dir \in dirs}

InitHrefs ==
    /\ pc = "import"
    /\ request = Undefined
    /\ package = Undefined
    /\ file \in PlacedFiles(DescriptorDirs, DocPool)
    /\ result = Undefined
    /\ app = Undefined

NextHrefs == ParseFile

SpecHrefs == InitHrefs /\ [][NextHrefs]_vars

\* The entry an href denotes from the directory dir: a parent-directory
\* segment takes the last segment away
RECURSIVE resolved(_, _)
resolved(dir, href) ==
    IF href = <<>> THEN dir
    ELSE IF Head(href) = ".."
    THEN resolved(IF dir = <<>> THEN dir ELSE parentFolder(dir), Tail(href))
    ELSE resolved(Append(dir, Head(href)), Tail(href))

\* The entry the manifest item of the reading-order position i denotes
DenotedAt(f, i) ==
    resolved(rootDir(DescriptorPath(f)), ItemsOf(f)[SpineOf(f)[i]])

\* C21: an href is resolved relative to the directory of the package
\* descriptor, parent-directory segments included: a reading-order entry
\* whose document is in the archive at the place the href denotes, with
\* more than 10 characters of content, is returned as a chapter
C21_HrefResolved ==
    (pc = "parsed" /\ Readable(file)) =>
        /\ result.state = "fulfilled"
        /\ \A i \in 1..Len(SpineOf(file)) :
              (/\ SpineOf(file)[i] \in DOMAIN ItemsOf(file)
               /\ HasFile(file, DenotedAt(file, i))
               /\ ~NoContent(zipLookup(file.entries, DenotedAt(file, i)))
               /\ retained(extractContent(
                      parseHtml(zipLookup(file.entries, DenotedAt(file, i))))))
              => \E m \in 1..Len(result.value) :
                    result.value[m].id = ToString(i)


----------------------------------------------------------------------------
(* The application: whose paragraphs the data at hand was made from *)

\* C22: in the reader, the audio buffers (and the URLs stored with them),
\* the translations, the analyses and the merged chapter audio were all
\* produced from the paragraphs of the active chapter; no result of a call
\* started for another chapter is stored against the active one
C22_DataOfActiveChapter ==
    (pc = "reader" /\ activeChapterId(app) # "") =>
        LET id == activeChapterId(app)
        IN  /\ \A k \in DOMAIN app.paragraphBuffers :
                  app.paragraphBuffers[k].of = id
            /\ \A k \in DOMAIN app.translatedParagraphs :
                  app.translatedParagraphs[k].of = id
            /\ \A k \in DOMAIN app.paragraphAnalyses :
                  app.paragraphAnalyses[k].of = id
            /\ app.mergedAudioBlob # Undefined =>
                  \A j \in 1..Len(app.mergedAudioBlob.parts) :
                      app.mergedAudioBlob.parts[j].buffer.of = id

----------------------------------------------------------------------------
(* The application: the chapter audio of an export *)

\* The concatenation, in ascending order of the indices, of the buffers of
\* the paragraph audios of a request
MergeOfExported(data) ==
    LET keys == ObjectKeys(data.paragraphAudioBlobs)
    IN  [j \in 1..Len(keys) |->
            [idx |-> keys[j],
             buffer |-> data.paragraphAudioBlobs[keys[j]].buffer]]

\* A chapter audio goes into the request exactly when a paragraph audio does
ChapterAudioIffParagraphAudio ==
    pc = "exported" =>
        (request.audioBlob # Undefined
            <=> DOMAIN request.paragraphAudioBlobs # {})

\* C24: the chapter audio handleExportEpub passes to generateEpub is the
\* concatenation, in ascending index order, of exactly the paragraph audio
\* buffers of the same request, and there is one iff the request has a
\* paragraph audio
C24_ChapterAudioOfSameBuffers ==
    pc = "exported" =>
        /\ request.audioBlob # Undefined
              <=> DOMAIN request.paragraphAudioBlobs # {}
        /\ request.audioBlob # Undefined =>
              request.audioBlob.parts = MergeOfExported(request)

----------------------------------------------------------------------------
(* The application: handleFullAuto beside the other controls *)

\* The end of handleFullAuto: mergeExistingParagraphs with the
\* paragraphBuffers of the closure, then the finally block
autoMerge(a, u) ==
    [a EXCEPT !.mergedAudioBlob =
                  mergedBlob([a EXCEPT !.paragraphBuffers = u.buffers]),
              !.isMerging = FALSE,
              !.isFullAutoRunning = FALSE,
              !.auto = NotRunning]

\* batchAnalyzeParagraphs(tMap) inside handleFullAuto, from the index from
\* on: up to the next call of analyzeParagraph, or through the merge when
\* the loop is over
autoAnalyze(a, u, from) ==
    LET i == nextIndex(u.seen, from, u.n)
    IN  IF i >= u.n
        THEN autoMerge([a EXCEPT !.isBatchAnalyzing = FALSE], u)
        ELSE [a EXCEPT !.isBatchAnalyzing = TRUE,
                       !.auto = [u EXCEPT !.step = "analyze", !.i = i]]

\* handleTranslateChapter inside handleFullAuto, up to its await
autoTranslate(a, u) ==
    [a EXCEPT !.isTranslating = TRUE,
              !.auto = [u EXCEPT !.step = "translate", !.i = 0]]

\* batchGenerateParagraphs inside handleFullAuto, from the index from on:
\* up to the next call of generateAudioData, or on to the translation when
\* the loop is over
autoGenerate(a, u, from) ==
    LET i == nextIndex(DOMAIN u.buffers, from, u.n)
    IN  IF i >= u.n
        THEN autoTranslate([a EXCEPT !.isBatchGenerating = FALSE], u)
        ELSE [a EXCEPT !.isBatchGenerating = TRUE,
                       !.auto = [u EXCEPT !.step = "generate", !.i = i]]

\* handleFullAuto up to its first provider call
StartFullAuto ==
    /\ pc = "reader"
    /\ ~app.isFullAutoRunning
    /\ ~app.auto.on
    /\ LET u == [on |-> TRUE, step |-> "generate",
                 chapter |-> activeChapterId(app),
                 n |-> Len(paragraphsOf(app)),
                 buffers |-> app.paragraphBuffers,
                 seen |-> {k \in DOMAIN app.paragraphAnalyses :
                              app.paragraphAnalyses[k].text # <<>>},
                 i |-> 0]
       IN  app' = autoGenerate([app EXCEPT !.isFullAutoRunning = TRUE], u, 0)
    /\ UNCHANGED <<pc, request, package, file, result>>

\* generateAudioData returns inside handleFullAuto
AutoGenerateResolved ==
    /\ app.auto.on
    /\ app.auto.step = "generate"
    /\ LET u == app.auto
       IN  app' = autoGenerate(
                [app EXCEPT !.paragraphBuffers =
                                spread(@, u.i, bufferOf(u.chapter))],
                u, u.i + 1)
    /\ UNCHANGED <<pc, request, package, file, result>>

\* generateAudioData throws inside handleFullAuto
AutoGenerateFailed ==
    /\ app.auto.on
    /\ app.auto.step = "generate"
    /\ app' = [app EXCEPT !.isBatchGenerating = FALSE,
                          !.isFullAutoRunning = FALSE,
                          !.auto = NotRunning]
    /\ UNCHANGED <<pc, request, package, file, result>>

\* translateChapter returns inside handleFullAuto
AutoTranslateResolved ==
    /\ app.auto.on
    /\ app.auto.step = "translate"
    /\ \E count \in 0..(app.auto.n + 1) :
          app' = autoAnalyze(
                [app EXCEPT
                    !.translatedParagraphs =
                        [k \in 0..(count - 1) |->
                            textOf(app.auto.chapter,
                                   ValueAt(TranslationPool, k))],
                    !.isTranslating = FALSE],
                app.auto, 0)
    /\ UNCHANGED <<pc, request, package, file, result>>

\* translateChapter throws inside handleFullAuto
AutoTranslateFailed ==
    /\ app.auto.on
    /\ app.auto.step = "translate"
    /\ app' = [app EXCEPT !.isTranslating = FALSE,
                          !.isFullAutoRunning = FALSE,
                          !.auto = NotRunning]
    /\ UNCHANGED <<pc, request, package, file, result>>

\* analyzeParagraph returns inside handleFullAuto
AutoAnalyzeResolved ==
    /\ app.auto.on
    /\ app.auto.step = "analyze"
    /\ LET u == app.auto
       IN  app' = autoAnalyze(
                [app EXCEPT !.paragraphAnalyses =
                    spread(@, u.i,
                           textOf(u.chapter, ValueAt(AnalysisPool, u.i)))],
                u, u.i + 1)
    /\ UNCHANGED <<pc, request, package, file, result>>

\* analyzeParagraph throws inside handleFullAuto
AutoAnalyzeFailed ==
    /\ app.auto.on
    /\ app.auto.step = "analyze"
    /\ app' = [app EXCEPT !.isBatchAnalyzing = FALSE,
                          !.isFullAutoRunning = FALSE,
                          !.auto = NotRunning]
    /\ UNCHANGED <<pc, request, package, file, result>>

\* generateEpub has returned or thrown: the finally block of
\* handleExportEpub
ExportFinished ==
    /\ pc = "exported"
    /\ pc' = "reader"
    /\ app' = [app EXCEPT !.isExporting = FALSE]
    /\ request' = Undefined
    /\ package' = Undefined
    /\ UNCHANGED <<file, result>>

\* The controls of one chapter: no chapter is selected or deleted
NextAuto ==
    \/ StartBatchGenerate \/ GenerateResolved \/ GenerateFailed
    \/ StartTranslate \/ TranslateResolved \/ TranslateFailed
    \/ StartAnalyzeParagraph \/ AnalyzeResolved \/ AnalyzeFailed
    \/ MergeParagraphs \/ ExportEpub \/ ExportFinished
    \/ StartFullAuto
    \/ AutoGenerateResolved \/ AutoGenerateFailed
    \/ AutoTranslateResolved \/ AutoTranslateFailed
    \/ AutoAnalyzeResolved \/ AutoAnalyzeFailed

SpecAuto == InitApp /\ [][NextAuto]_vars

----------------------------------------------------------------------------
(* Properties of handleFullAuto *)

\* The place of a step in the order generation, translation, analysis
StepRank(step) ==
    CASE step = "generate" -> 1
      [] step = "translate" -> 2
      [] step = "analyze" -> 3
      [] OTHER -> 0

\* A step in which handleFullAuto returns after its last provider call
FullAutoEnds ==
    /\ AutoTranslateResolved \/ AutoAnalyzeResolved
    /\ ~app'.auto.on

\* handleFullAuto was started on a chapter with a paragraph and no audio
StartedWithoutAudio ==
    app.auto.on /\ app.auto.n >= 1 /\ DOMAIN app.auto.buffers = {}

\* C23: handleFullAuto started on a chapter with at least one paragraph and
\* no audio, all of whose provider calls succeed, ends with a merged chapter
\* audio that is the concatenation, in ascending paragraph order, of the
\* paragraph audios; its steps run in the order generation, translation,
\* analysis, merge
C23_FullAutoMerges ==
    [][/\ (app.auto.on /\ app'.auto.on) =>
              StepRank(app.auto.step) <= StepRank(app'.auto.step)
       /\ (FullAutoEnds /\ StartedWithoutAudio) =>
              /\ app'.mergedAudioBlob # Undefined
              /\ app'.mergedAudioBlob.parts = mergedBlob(app').parts
              /\ \A k \in 0..(app.auto.n - 1) :
                    \E j \in 1..Len(app'.mergedAudioBlob.parts) :
                        app'.mergedAudioBlob.parts[j].idx = k]_vars

\* The steps of handleFullAuto run in the order generation, translation,
\* analysis, and it ends after the analysis of the last paragraph
FullAutoInOrder ==
    [][(app.auto.on /\ app'.auto.on) =>
          StepRank(app.auto.step) <= StepRank(app'.auto.step)]_vars

----------------------------------------------------------------------------
(* The application: books opened from the welcome view *)

\* The state of a new App
NoBook ==
    [chapters |-> <<>>,
     activeChapterIndex |-> 0,
     paragraphBuffers |-> EmptyMap,
     translatedParagraphs |-> EmptyMap,
     paragraphAnalyses |-> EmptyMap,
     mergedAudioBlob |-> Undefined,
     isBatchGenerating |-> FALSE,
     isMerging |-> FALSE,
     isTranslating |-> FALSE,
     isBatchAnalyzing |-> FALSE,
     isExporting |-> FALSE,
     isFullAutoRunning |-> FALSE,
     playingParagraphIdx |-> Null,
     player |-> NewPlayer,
     rejections |-> 0,
     generating |-> Idle,
     translating |-> Idle,
     analyzing |-> Idle,
     auto |-> NotRunning]

\* EPUB files of up to n reading-order entries: c1 is a chapter, c2 a
\* chapter or a cover page without text
ShelfFiles(n) ==
    {Archive(Container(<<Rootfile(OpfPath)>>), OpfPath, Package(spine),
             <<"OEBPS">>, AnyDoc, d2) :
        spine \in SeqsUpTo({"c1", "c2"}, n),
        d2 \in {AnyDoc, Doc(<<Title(<<"C", "o", "v", "e", "r">>)>>,
                            <<Indent(0)>>)}}

InitShelf ==
    /\ pc = "welcome"
    /\ request = Undefined
    /\ package = Undefined
    /\ file = Undefined
    /\ result = Undefined
    /\ app = NoBook

\* setChapters(list); setMode('reader'); setActiveChapterIndex(0);
\* clearChapterData()
opened(a, list) ==
    cleared([a EXCEPT !.chapters = list, !.activeChapterIndex = 0])

\* handleFileChange with an .epub file that parseEpubFile reads; when
\* parseEpubFile rejects, the handler ends without a change
OpenEpub ==
    /\ pc = "welcome"
    /\ \E f \in ShelfFiles(MaxSpine) :
          LET parsed == parseEpubFile(f)
          IN  /\ parsed.state = "fulfilled"
              /\ app' = opened(app, parsed.value)
    /\ pc' = "reader"
    /\ UNCHANGED <<request, package, file, result>>

\* handleFileChange with a text file
OpenText ==
    /\ pc = "welcome"
    /\ \E text \in TextsOf(TextPieces, 2) :
          app' = opened(app, splitTextIntoChapters(text, FullContent))
    /\ pc' = "reader"
    /\ UNCHANGED <<request, package, file, result>>

\* The button of the welcome view, with pasted text
EnterStudio ==
    /\ pc = "welcome"
    /\ \E inputText \in TextsOf(TextPieces, 2), bookTitle \in BookTitles :
          /\ trim(inputText) # <<>>
          /\ app' = opened(app, splitTextIntoChapters(inputText, bookTitle))
    /\ pc' = "reader"
    /\ UNCHANGED <<request, package, file, result>>

\* The HOME button of the sidebar
GoHome ==
    /\ pc = "reader"
    /\ pc' = "welcome"
    /\ UNCHANGED <<request, package, file, result, app>>

NextShelf ==
    \/ OpenEpub \/ OpenText \/ EnterStudio \/ GoHome
    \/ SelectChapter \/ PreviousChapter \/ NextChapter \/ DeleteChapter

SpecShelf == InitShelf /\ [][NextShelf]_vars

\* In the reader there is an active chapter
ReaderHasActiveChapter ==
    pc = "reader" =>
        /\ app.chapters # <<>>
        /\ 0 <= app.activeChapterIndex
        /\ app.activeChapterIndex < Len(app.chapters)

\* A step of deleteChapter that leaves the active chapter in the list
DeleteOfAnother ==
    /\ DeleteChapter
    /\ activeChapterId(app) # ""
    /\ \E j \in 1..Len(app'.chapters) :
          app'.chapters[j].id = activeChapterId(app)

\* deleteChapter of a chapter other than the active one leaves the active
\* chapter and its data as they are
DeleteKeepsActive ==
    [][DeleteOfAnother =>
          /\ app'.activeChapterIndex \in 0..(Len(app'.chapters) - 1)
          /\ app'.chapters[app'.activeChapterIndex + 1]
                = app.chapters[app.activeChapterIndex + 1]
          /\ app'.paragraphBuffers = app.paragraphBuffers
          /\ app'.translatedParagraphs = app.translatedParagraphs
          /\ app'.paragraphAnalyses = app.paragraphAnalyses
          /\ app'.mergedAudioBlob = app.mergedAudioBlob]_vars

\* C25: in reader mode the chapter list is not empty and
\* 0 <= activeChapterIndex < chapters.length, after any file load, chapter
\* selection, previous/next and deleteChapter; and deleteChapter of a
\* chapter other than the active one leaves the same chapter active with
\* its per-paragraph data unchanged
C25_ActiveChapterInReader ==
    /\ []ReaderHasActiveChapter
    /\ DeleteKeepsActive

----------------------------------------------------------------------------
(* Properties of the busy flags *)

\* The operations in flight, by kind
GeneratingInFlight ==
    app.generating.on \/ (app.auto.on /\ app.auto.step = "generate")

TranslatingInFlight ==
    app.translating.on \/ (app.auto.on /\ app.auto.step = "translate")

BatchAnalyzingInFlight ==
    \/ app.analyzing.on /\ app.analyzing.kind = "batch"
    \/ app.auto.on /\ app.auto.step = "analyze"

\* A flag that is true has an operation of its kind in flight: no flag is
\* left at true by an operation that has completed or failed
NoFlagStuck ==
    /\ app.isBatchGenerating => GeneratingInFlight
    /\ app.isTranslating => TranslatingInFlight
    /\ app.isBatchAnalyzing => BatchAnalyzingInFlight
    /\ ~app.isMerging
    /\ app.isExporting => pc = "exported"
    /\ app.isFullAutoRunning => app.auto.on

\* C26: each busy flag is true exactly while an operation of its kind is in
\* flight: set before the first provider call, false once every such
\* operation has completed or failed, and not reset while another operation
\* of the same kind, started through another control, is still running
C26_BusyFlags ==
    /\ app.isBatchGenerating <=> GeneratingInFlight
    /\ app.isTranslating <=> TranslatingInFlight
    /\ app.isBatchAnalyzing <=> BatchAnalyzingInFlight
    /\ ~app.isMerging
    /\ app.isExporting <=> pc = "exported"
    /\ app.isFullAutoRunning <=> app.auto.on

----------------------------------------------------------------------------
(* Properties of batchGenerateParagraphs *)

\* The paragraph indices a TTS request is in flight for
AwaitedByControl == IF app.generating.on THEN {app.generating.i} ELSE {}

AwaitedByFullAuto ==
    IF app.auto.on /\ app.auto.step = "generate" THEN {app.auto.i} ELSE {}

\* No paragraph has two TTS requests: none is awaited by two runs, and none
\* that has audio is awaited
NoSecondRequest ==
    /\ AwaitedByControl \cap AwaitedByFullAuto = {}
    /\ (AwaitedByControl \cup AwaitedByFullAuto)
          \cap DOMAIN app.paragraphBuffers = {}

\* A step in which a run of batchGenerateParagraphs returns after its last
\* TTS call
RunCompletes ==
    \/ GenerateResolved /\ ~app'.generating.on
    \/ AutoGenerateResolved /\ app'.auto.step # "generate"

\* A completed run leaves every paragraph with audio; a failed request ends
\* the run and leaves the audio stored so far
RunsCompleteOrKeep ==
    [][/\ RunCompletes =>
              \A k \in 0..(Len(paragraphsOf(app)) - 1) :
                  k \in DOMAIN app'.paragraphBuffers
       /\ GenerateFailed =>
              /\ ~app'.generating.on
              /\ app'.paragraphBuffers = app.paragraphBuffers
       /\ AutoGenerateFailed =>
              /\ ~app'.auto.on
              /\ app'.paragraphBuffers = app.paragraphBuffers]_vars

\* C27: a run of batchGenerateParagraphs that completes without a provider
\* error and without a chapter switch leaves every paragraph of the active
\* chapter with audio; a paragraph that has audio, or a TTS request in
\* flight from another run, is not requested again; a failed request stops
\* the run and the audio stored before it is kept
C27_BatchGenerate ==
    /\ []NoSecondRequest
    /\ RunsCompleteOrKeep

----------------------------------------------------------------------------
(* The translation service: translateChapter, analyzeParagraph *)

\* The ids of TRANSLATION_MODEL_OPTIONS, in the order of the list
TRANSLATION_MODEL_OPTIONS ==
    <<"gemini-3-flash-preview", "glm-4.6v-flash", "gpt-3.5-turbo">>

MODEL_NAMES ==
    [GEMINI |-> [TTS |-> "gemini-2.5-flash-preview-tts",
                 TRANSLATION |-> "gemini-3-flash-preview",
                 ANALYSIS |-> "gemini-3-pro-preview"],
     ZHIPU |-> [TTS |-> "glm-tts", CHAT |-> "glm-4-9-air"],
     OPENAI |-> [TTS |-> "gpt-4o-mini-tts", CHAT |-> "gpt-3.5-turbo"]]

API_URLS ==
    [ZHIPU |-> "https://open.bigmodel.cn/api/paas/v4",
     OPENAI |-> "https://api.302.ai/v1",
     GEMINI |-> ""]

\* getApiKey(service) with process.env.API_KEY = key: the key of the
\* service, or an error when there is none
getApiKey(key, service) ==
    IF key = "" THEN Rejected("Configuration Error")
    ELSE Fulfilled([service |-> service, key |-> key])

\* The key translateChapter and analyzeParagraph ask for
apiKeyFor(key, model) ==
    IF model = "gemini-3-flash-preview" THEN getApiKey(key, "gemini")
    ELSE IF model = "glm-4-9-air" THEN getApiKey(key, "zhipu")
    ELSE getApiKey(key, "openai")

\* A request through the GoogleGenAI SDK, or to the REST address when
\* API_URLS.GEMINI is set
geminiRequest(apiKey, name, body) ==
    IF API_URLS.GEMINI # ""
    THEN [url |-> API_URLS.GEMINI \o "/v1beta/models/" \o name
                    \o ":generateContent",
          sdk |-> "", apiKey |-> apiKey, model |-> name, body |-> body]
    ELSE [url |-> "", sdk |-> "GoogleGenAI", apiKey |-> apiKey,
          model |-> name, body |-> body]

\* A chat completion request
chatRequest(baseUrl, apiKey, name, body) ==
    [url |-> baseUrl \o "/chat/completions", sdk |-> "", apiKey |-> apiKey,
     model |-> name, body |-> body]

\* translateChapter up to the request it sends
translateChapter(paragraphs, direction, model, key) ==
    LET apiKey == apiKeyFor(key, model)
        body == [source |-> IF direction = "zh-en" THEN "Chinese"
                            ELSE "English",
                 target |-> IF direction = "zh-en" THEN "English"
                            ELSE "Chinese",
                 count |-> Len(paragraphs),
                 paragraphs |-> paragraphs]
    IN  IF apiKey.state = "rejected" THEN apiKey
        ELSE IF model = "gemini-3-flash-preview"
        THEN Fulfilled(geminiRequest(apiKey.value,
                                     MODEL_NAMES.GEMINI.TRANSLATION, body))
        ELSE IF model = "glm-4-9-air"
        THEN Fulfilled(chatRequest(API_URLS.ZHIPU, apiKey.value,
                                   MODEL_NAMES.ZHIPU.CHAT, body))
        ELSE Fulfilled(chatRequest(API_URLS.OPENAI, apiKey.value,
                                   MODEL_NAMES.OPENAI.CHAT, body))

\* analyzeParagraph up to the request it sends
analyzeParagraph(text, model, key) ==
    LET apiKey == apiKeyFor(key, model)
        body == [text |-> text]
    IN  IF apiKey.state = "rejected" THEN apiKey
        ELSE IF model = "gemini-3-flash-preview"
        THEN Fulfilled(geminiRequest(apiKey.value,
                                     MODEL_NAMES.GEMINI.ANALYSIS, body))
        ELSE Fulfilled(chatRequest(
                IF model = "glm-4-9-air" THEN API_URLS.ZHIPU
                ELSE API_URLS.OPENAI,
                apiKey.value,
                IF model = "glm-4-9-air" THEN MODEL_NAMES.ZHIPU.CHAT
                ELSE MODEL_NAMES.OPENAI.CHAT,
                body))

\* The values of process.env.API_KEY: none, or a key
ApiKeys == {"", "sk-1"}

\* The calls App makes: handleTranslateChapter with the paragraphs of the
\* chapter, handleAnalyzeParagraph with a paragraph or its translation,
\* each with a model of the selector
InitRouting ==
    /\ pc = "call"
    /\ request \in
          {[fn |-> "translateChapter",
            paragraphs |-> SubSeq(ParagraphPool, 1, n),
            direction |-> d, model |-> TRANSLATION_MODEL_OPTIONS[m],
            key |-> k] :
              n \in 0..MaxParagraphs, d \in {"zh-en", "en-zh"},
              m \in 1..Len(TRANSLATION_MODEL_OPTIONS), k \in ApiKeys}
          \cup
          {[fn |-> "analyzeParagraph", text |-> t,
            model |-> TRANSLATION_MODEL_OPTIONS[m], key |-> k] :
              t \in {ParagraphPool[j] : j \in 1..Len(ParagraphPool)}
                    \cup {TranslationPool[j] : j \in 1..Len(TranslationPool)},
              m \in 1..Len(TRANSLATION_MODEL_OPTIONS), k \in ApiKeys}
    /\ package = Undefined
    /\ file = Undefined
    /\ result = Undefined
    /\ app = Undefined

\* The call is made: the request that goes out, or the error
CallProvider ==
    /\ pc = "call"
    /\ result' =
          IF request.fn = "translateChapter"
          THEN translateChapter(request.paragraphs, request.direction,
                                request.model, request.key)
          ELSE analyzeParagraph(request.text, request.model, request.key)
    /\ pc' = "sent"
    /\ UNCHANGED <<request, package, file, app>>

NextRouting == CallProvider

SpecRouting == InitRouting /\ [][NextRouting]_vars

\* The provider a model of the selector belongs to
ProviderOfOption(model) ==
    CASE model = "gemini-3-flash-preview" -> "gemini"
      [] model = "glm-4.6v-flash" -> "zhipu"
      [] model = "gpt-3.5-turbo" -> "openai"

\* The provider a request goes to
ProviderOfRequest(r) ==
    CASE r.sdk = "GoogleGenAI" -> "gemini"
      [] r.sdk = "" /\ r.url = API_URLS.ZHIPU \o "/chat/completions" -> "zhipu"
      [] r.sdk = "" /\ r.url = API_URLS.OPENAI \o "/chat/completions" -> "openai"
      [] OTHER -> "gemini"

\* C28: translateChapter and analyzeParagraph send the request to the
\* provider of the selected model, with that provider's key, for every
\* model of TRANSLATION_MODEL_OPTIONS
C28_RoutedToOwnProvider ==
    (pc = "sent" /\ result.state = "fulfilled") =>
        /\ ProviderOfRequest(result.value) = ProviderOfOption(request.model)
        /\ result.value.apiKey.service = ProviderOfOption(request.model)

----------------------------------------------------------------------------
(* The writer: manifest and archive *)

\* The positions of the resources written under OEBPS/: every file entry
\* there but the package descriptor
ResourceEntries ==
    {i \in 1..Len(Entries) :
        /\ ~Entries[i].dir
        /\ Len(Entries[i].name) >= 2
        /\ Entries[i].name[1] = "OEBPS"
        /\ Entries[i].name # <<"OEBPS", "content.opf">>}

\* The manifest items whose href names the entry at position i
ItemsNaming(i) ==
    {j \in 1..Len(PackageDoc.manifest) :
        <<"OEBPS">> \o PackageDoc.manifest[j].href = Entries[i].name}

\* C29: in every package generateEpub produces, every manifest href names
\* an entry written under OEBPS/, and every resource written under OEBPS/
\* other than the package descriptor (content document, stylesheet, chapter
\* audio, each paragraph audio) has exactly one manifest item
C29_ManifestMatchesArchive ==
    pc = "generated" =>
        /\ package.state = "fulfilled"
        /\ \A j \in 1..Len(PackageDoc.manifest) :
              HasFile(package.value, <<"OEBPS">> \o PackageDoc.manifest[j].href)
        /\ \A i \in ResourceEntries : Cardinality(ItemsNaming(i)) = 1

\* A package with a chapter audio and two paragraph audios, one of them an
\* empty Blob, each written and listed
C29_Witness ==
    /\ pc = "generated"
    /\ hasChapterAudio(request)
    /\ Cardinality(DOMAIN request.paragraphAudioBlobs) >= 2
    /\ \E k \in DOMAIN request.paragraphAudioBlobs :
          request.paragraphAudioBlobs[k].size = 0
    /\ Cardinality(ResourceEntries) >= 5
    /\ Len(PackageDoc.manifest) = Cardinality(ResourceEntries)

----------------------------------------------------------------------------
(* The application: the paragraph player *)

\* The rejected play() promises that may wait for their callback at a time
MaxLate == 2

\* A chapter whose paragraphs all have audio
InitPlayer ==
    /\ pc = "reader"
    /\ request = Undefined
    /\ package = Undefined
    /\ file = Undefined
    /\ result = Undefined
    /\ app = [NoBook EXCEPT
                !.chapters = Book,
                !.paragraphBuffers =
                    [k \in 0..(Len(paragraphsOf([NoBook EXCEPT
                                                   !.chapters = Book])) - 1)
                        |-> bufferOf(Book[1].id)]]

\* playParagraphAudio(url, index), from the button of a paragraph that has
\* audio
PlayParagraph ==
    /\ pc = "reader"
    /\ app.rejections + Cardinality(app.player.pending) <= MaxLate
    /\ \E index \in DOMAIN app.paragraphBuffers :
          IF app.playingParagraphIdx = index /\ ~app.player.paused
          THEN app' = [app EXCEPT
                  !.rejections = @ + Cardinality(app.player.pending),
                  !.player = paused(@),
                  !.playingParagraphIdx = Null]
          ELSE app' = [app EXCEPT
                  !.rejections = @ + Cardinality(app.player.pending),
                  !.player = [loaded(paused(@), index) EXCEPT
                                 !.paused = FALSE, !.pending = {index}],
                  !.playingParagraphIdx = index]
    /\ UNCHANGED <<pc, request, package, file, result>>

\* Playback begins: the play() promise is fulfilled
PlaybackStarts ==
    /\ app.player.pending # {}
    /\ app' = [app EXCEPT !.player.pending = {}]
    /\ UNCHANGED <<pc, request, package, file, result>>

\* The source cannot be played: the play() promise is rejected
PlaybackFails ==
    /\ app.player.pending # {}
    /\ app.rejections < MaxLate
    /\ app' = [app EXCEPT !.player.pending = {}, !.player.failed = TRUE,
                          !.rejections = @ + 1]
    /\ UNCHANGED <<pc, request, package, file, result>>

\* The catch callback of a rejected play() promise runs
RejectionHandled ==
    /\ app.rejections > 0
    /\ app' = [app EXCEPT !.rejections = @ - 1,
                          !.playingParagraphIdx = Null]
    /\ UNCHANGED <<pc, request, package, file, result>>

\* The audio has been played to its end: onEnded
PlaybackEnds ==
    /\ ~app.player.paused
    /\ app.player.pending = {}
    /\ ~app.player.failed
    /\ app' = [app EXCEPT !.player.paused = TRUE,
                          !.playingParagraphIdx = Null]
    /\ UNCHANGED <<pc, request, package, file, result>>

NextPlayer ==
    \/ PlayParagraph \/ PlaybackStarts \/ PlaybackFails
    \/ RejectionHandled \/ PlaybackEnds
    \/ (app.rejections + Cardinality(app.player.pending) <= MaxLate
        /\ SelectChapter)
    \/ StartBatchGenerate \/ GenerateResolved \/ GenerateFailed

SpecPlayer == InitPlayer /\ [][NextPlayer]_vars

\* The player is playing the audio of paragraph i
Playing(i) ==
    ~app.player.paused /\ app.player.src = i /\ ~app.player.failed

\* The mark is on a paragraph that is playing, unless a rejection has still
\* to be handled
MarkedIsPlaying ==
    \A i \in 0..(MaxParagraphs - 1) :
        app.playingParagraphIdx = i => (Playing(i) \/ app.rejections > 0)

\* C30: playingParagraphIdx is i exactly when the paragraph player is
\* playing the audio of paragraph i, and null otherwise; the late rejection
\* of an earlier play() call never clears the mark of the paragraph that is
\* playing now
C30_MarkIsPlayingParagraph ==
    /\ \A i \in 0..(MaxParagraphs - 1) :
          Playing(i) => app.playingParagraphIdx = i
    /\ MarkedIsPlaying
====
